---------------------------- MODULE Spec2Model ----------------------------
(***************************************************************************)
(* Sparse Merkle tree of al8n/lsmtree: the tree engine (src/src/smt.rs),   *)
(* the tree hasher (src/src/tree_hasher.rs), the proofs                    *)
(* (src/src/proofs.rs) and the in-memory store of the tests                *)
(* (src/src/smt/tests.rs).                                                 *)
(*                                                                         *)
(* Byte strings are tuples of integers and tuples:                         *)
(*   <<>>            the empty byte string (Bytes::new())                  *)
(*   <<b>>           a user byte string of one byte b (a key or a value)   *)
(*   <<2, data>>     the S-byte digest of the byte string data; the hash   *)
(*                   is collision free, so the digest is the term itself   *)
(*   <<3, n>>        the S-byte string whose big-endian value is n         *)
(*   <<p, l, r>>     the 1+2S bytes  p || l || r  of a serialized node     *)
(* An Option is the value None or the byte string itself.                  *)
(***************************************************************************)
EXTENDS Integers, Sequences, FiniteSets, TLC

VARIABLES smt, kv, last, dsmst, added, phase, subOps

vars == <<smt, kv, last, dsmst, added, phase, subOps>>

-----------------------------------------------------------------------------
(* Bounds of the model *)

\* number of bits of a path (8 * S in the code)
PATH_BITS == 3
\* keys are the one-byte strings <<0>> .. <<NumKeys - 1>>
NumKeys == 4
\* non-empty values are the one-byte strings <<1>> .. <<NumValues>>
NumValues == 2
\* number of bits of a byte of a bit mask (8 in the code)
BYTE_BITS == 2

Keys == {<<k>> : k \in 0 .. (NumKeys - 1)}
Values == {<<v>> : v \in 1 .. NumValues}

-----------------------------------------------------------------------------
(* Constants of the program *)

RIGHT == 1
LEAF_PREFIX == 0
NODE_PREFIX == 1
DEFAULT_VALUE == <<>>

None == <<-1>>

Pow2(n) == 2 ^ n

-----------------------------------------------------------------------------
(* The hash function: sha2::Sha256 in the tests, here a collision-free     *)
(* function whose digests have PATH_BITS bits.                             *)

\* The bits of a digest, as a number below 2^PATH_BITS.
Mix(n) == (n * 5 + 3) % Pow2(PATH_BITS)

RECURSIVE BlockValue(_)
\* The big-endian value of an S-byte string.
BlockValue(block) ==
    IF block[1] = 3 THEN block[2]
    ELSE LET data == block[2]
         IN  IF Len(data) = 0 THEN Mix(0)
             ELSE IF Len(data) = 1 THEN Mix(data[1])
             ELSE IF Len(data) = 2 THEN Mix(1 + BlockValue(data))
             ELSE Mix(data[1] + 1 + 3 * BlockValue(data[2]) + 7 * BlockValue(data[3]))

digest(data) == <<2, data>>

path_of(key) == digest(key)

placeholder == <<3, 0>>

\* (hash, serialized bytes) of a leaf
digest_leaf(path, leaf_data) ==
    LET value == <<LEAF_PREFIX, path, leaf_data>>
    IN  <<digest(value), value>>

digest_leaf_hash(path, leaf_data) == digest(<<LEAF_PREFIX, path, leaf_data>>)

\* digest_node hashing the children under the leaf prefix: the node is stored
\* under a hash that is not the hash of its bytes.
digest_node_WrongPrefix(left_data, right_data) ==
    <<digest(<<LEAF_PREFIX, left_data, right_data>>),
      <<NODE_PREFIX, left_data, right_data>>>>

\* (hash, serialized bytes) of an internal node
digest_node(left_data, right_data) ==
    LET value == <<NODE_PREFIX, left_data, right_data>>
    IN  <<digest(value), value>>

digest_left_node(left_data) == digest_node(left_data, placeholder)

digest_right_node(right_data) == digest_node(placeholder, right_data)

\* data is a serialized leaf: (path, value hash)
parse_leaf(data) == <<data[2], data[3]>>

\* data is an Option of a serialized node: (left, right)
parse_node(data) ==
    IF data = None THEN <<(<<>>), (<<>>)>> ELSE <<data[2], data[3]>>

is_leaf(data) ==
    IF data = None THEN FALSE ELSE data[1] = LEAF_PREFIX

get_bit_at_from_msb(data, position) ==
    (BlockValue(data) \div Pow2(PATH_BITS - 1 - position)) % 2

RECURSIVE CommonPrefixFrom(_, _, _)
CommonPrefixFrom(a, b, i) ==
    IF i < PATH_BITS /\ get_bit_at_from_msb(a, i) = get_bit_at_from_msb(b, i)
    THEN CommonPrefixFrom(a, b, i + 1)
    ELSE i

count_common_prefix(a, b) == CommonPrefixFrom(a, b, 0)

-----------------------------------------------------------------------------
(* The key-value store of the tests (SimpleStore): a map from byte strings *)
(* to byte strings; remove of a missing key is the error NotFound.         *)

EmptyStore == [x \in {} |-> <<>>]

StoreGet(data, key) == IF key \in DOMAIN data THEN data[key] ELSE None

StoreContains(data, key) == key \in DOMAIN data

StoreSet(data, key, value) ==
    [x \in (DOMAIN data) \cup {key} |-> IF x = key THEN value ELSE data[x]]

StoreRemove(data, key) == [x \in (DOMAIN data) \ {key} |-> data[x]]

(* An operation in progress: s = [nodes, values, st, log, left], where st   *)
(* is "ok", "err" once a store call has returned an error (the ? operator  *)
(* returns it at once, so no later call of the operation happens) and      *)
(* "panic" once an unwrap of None has aborted the operation.  log is the   *)
(* sequence of the writes that the operation has made.  A store may fail   *)
(* any call: left is the number of calls that the stores still answer      *)
(* before one returns an error, NoFault when none does; calls is the       *)
(* number of store calls that the operation has made.                      *)

NoFault == -1

\* The operation on the engine e begins.
Begin(e, left) ==
    [nodes |-> e.nodes, values |-> e.values, st |-> "ok", log |-> <<>>,
     left |-> left, calls |-> 0]

\* The store call that s makes returns an error.
Failed(s) == [s EXCEPT !.st = "err", !.calls = @ + 1]

\* One more store call has been answered.
Spent(s) == [s EXCEPT !.left = IF @ > 0 THEN @ - 1 ELSE @, !.calls = @ + 1]

\* n calls of get: the first that the store does not answer returns an error.
Reads(s, n) ==
    IF s.st # "ok" THEN s
    ELSE IF s.left >= 0 /\ s.left < n
    THEN [s EXCEPT !.st = "err", !.calls = @ + s.left + 1, !.left = 0]
    ELSE IF s.left >= 0 THEN [s EXCEPT !.left = @ - n, !.calls = @ + n]
    ELSE [s EXCEPT !.calls = @ + n]

\* nodes.set that also stores an entry for the placeholder
NodesSet_WithPlaceholder(s, key, value) ==
    IF s.st # "ok" THEN s
    ELSE [Spent(s) EXCEPT !.nodes = StoreSet(StoreSet(s.nodes, placeholder, <<>>), key, value)]

NodesSet(s, key, value) ==
    IF s.st # "ok" THEN s
    ELSE IF s.left = 0 THEN Failed(s)
    ELSE [Spent(s) EXCEPT !.nodes = StoreSet(s.nodes, key, value),
                          !.log = Append(@, <<"nodes.set", key>>)]

NodesRemove(s, key) ==
    IF s.st # "ok" THEN s
    ELSE IF s.left = 0 THEN Failed(s)
    ELSE IF key \in DOMAIN s.nodes
         THEN [Spent(s) EXCEPT !.nodes = StoreRemove(s.nodes, key),
                               !.log = Append(@, <<"nodes.remove", key>>)]
         ELSE Failed(s)

\* values.set that stores nothing
ValuesSet_Dropped(s, key, value) == s

ValuesSet(s, key, value) ==
    IF s.st # "ok" THEN s
    ELSE IF s.left = 0 THEN Failed(s)
    ELSE [Spent(s) EXCEPT !.values = StoreSet(s.values, key, value),
                          !.log = Append(@, <<"values.set", key>>)]

\* values.remove that removes nothing
ValuesRemove_Skipped(s, key) == s

ValuesRemove(s, key) ==
    IF s.st # "ok" THEN s
    ELSE IF s.left = 0 THEN Failed(s)
    ELSE IF key \in DOMAIN s.values
         THEN [Spent(s) EXCEPT !.values = StoreRemove(s.values, key),
                               !.log = Append(@, <<"values.remove", key>>)]
         ELSE Failed(s)

Panic(s) == IF s.st # "ok" THEN s ELSE [s EXCEPT !.st = "panic"]

-----------------------------------------------------------------------------
(* The tree engine.  An engine is a record [nodes, values, root].          *)

depth == PATH_BITS

Reverse(seq) == [i \in 1 .. Len(seq) |-> seq[Len(seq) + 1 - i]]

\* The result of the walk without the bytes of the node that the walk ended at
UpdateResult_NoData(side_nodes, path_nodes, sibling_data, current_data) ==
    [side_nodes |-> side_nodes, path_nodes |-> path_nodes,
     sibling_data |-> sibling_data, current_data |-> None]

UpdateResult(side_nodes, path_nodes, sibling_data, current_data) ==
    [side_nodes |-> side_nodes, path_nodes |-> path_nodes,
     sibling_data |-> sibling_data, current_data |-> current_data]

RECURSIVE SideNodesLoop(_, _, _, _, _, _, _)
\* The loop of side_nodes_for_root from iteration i on.
SideNodesLoop(nodes, path, get_sibling_data, i, current_data, side_nodes, path_nodes) ==
    IF i >= depth
    THEN UpdateResult(Reverse(side_nodes), Reverse(path_nodes), None, current_data)
    ELSE
    LET parsed == parse_node(current_data)
        left_node == parsed[1]
        right_node == parsed[2]
        goRight == get_bit_at_from_msb(path, i) = RIGHT
        side_node == IF goRight THEN left_node ELSE right_node
        node_hash == IF goRight THEN right_node ELSE left_node
        sibling == IF get_sibling_data THEN StoreGet(nodes, side_node) ELSE None
        next_data == StoreGet(nodes, node_hash)
    IN  IF node_hash = placeholder
        THEN UpdateResult(Reverse(Append(side_nodes, side_node)),
                          Reverse(Append(path_nodes, node_hash)), sibling, None)
        ELSE IF is_leaf(next_data)
        THEN UpdateResult(Reverse(Append(side_nodes, side_node)),
                          Reverse(Append(path_nodes, node_hash)), sibling, next_data)
        ELSE SideNodesLoop(nodes, path, get_sibling_data, i + 1, next_data,
                           Append(side_nodes, side_node), Append(path_nodes, node_hash))

\* The walk that never reads the sibling
side_nodes_for_root_NoSibling(nodes, path, root, get_sibling_data) ==
    IF root = placeholder
    THEN UpdateResult(<<>>, <<root>>, None, None)
    ELSE IF is_leaf(StoreGet(nodes, root))
    THEN UpdateResult(<<>>, <<root>>, None, StoreGet(nodes, root))
    ELSE SideNodesLoop(nodes, path, FALSE, 0, StoreGet(nodes, root), <<>>, <<root>>)

side_nodes_for_root(nodes, path, root, get_sibling_data) ==
    IF root = placeholder
    THEN UpdateResult(<<>>, <<root>>, None, None)
    ELSE LET current_data == StoreGet(nodes, root)
         IN  IF is_leaf(current_data)
             THEN UpdateResult(<<>>, <<root>>, None, current_data)
             ELSE SideNodesLoop(nodes, path, get_sibling_data, 0, current_data,
                                <<>>, <<root>>)

\* get: the value store read, unless the tree is empty
get(e, key) ==
    IF e.root = placeholder THEN None ELSE StoreGet(e.values, path_of(key))

contains(e, key) ==
    IF e.root = placeholder THEN FALSE ELSE StoreContains(e.values, path_of(key))

RECURSIVE RemoveAll(_, _, _)
\* self.nodes.remove(node)? for the nodes of seq from index i on
RemoveAll(s, seq, i) ==
    IF i > Len(seq) THEN s ELSE RemoveAll(NodesRemove(s, seq[i]), seq, i + 1)

RECURSIVE RemoveLoop(_, _, _, _, _, _, _)
\* The loop of remove_with_side_nodes over the side nodes, from the (0-based)
\* index idx on; returns [s, current_hash].
RemoveLoop(s, path, side_nodes, idx, current_data, current_hash, reached) ==
    IF idx >= Len(side_nodes) \/ s.st # "ok"
    THEN [s |-> s, current_hash |-> current_hash]
    ELSE IF current_data = <<>> /\ s.left = 0
    THEN [s |-> Failed(s), current_hash |-> current_hash]
    ELSE
    LET side_node == side_nodes[idx + 1]
        first == current_data = <<>>
        side_node_value == StoreGet(s.nodes, side_node)
        bubble == first /\ is_leaf(side_node_value)
        data1 == IF first THEN placeholder ELSE current_data
        reached1 == IF first THEN TRUE ELSE reached
        skip == ~reached1 /\ side_node = placeholder
        digested == IF get_bit_at_from_msb(path, Len(side_nodes) - idx - 1) = RIGHT
                    THEN digest_node(side_node, data1)
                    ELSE digest_node(data1, side_node)
    IN  IF bubble
        THEN RemoveLoop(Spent(s), path, side_nodes, idx + 1, side_node, side_node,
                        reached)
        ELSE IF skip
        THEN RemoveLoop(s, path, side_nodes, idx + 1, data1, current_hash, reached1)
        ELSE RemoveLoop(NodesSet(IF first THEN Spent(s) ELSE s, digested[1],
                                 digested[2]),
                        path, side_nodes, idx + 1, digested[1], digested[1], TRUE)

\* The end of remove_with_side_nodes without the replacement of an empty
\* current_hash by the placeholder.
RemoveResult_KeepEmpty(r) == [s |-> r.s, ret |-> r.current_hash]

\* The end of remove_with_side_nodes, r being what the loop returned: an empty
\* current_hash is replaced by the placeholder.
RemoveResult(r) ==
    [s |-> r.s,
     ret |-> IF r.current_hash = <<>> THEN placeholder ELSE r.current_hash]

\* The deletion with current_data initialised to the placeholder instead of the
\* empty byte string: a leaf sibling is never moved up.
RemoveLeaf_NoBubble(s, path, side_nodes, path_nodes) ==
    RemoveResult(RemoveLoop(RemoveAll(s, path_nodes, 1), path, side_nodes, 0,
                            placeholder, placeholder, FALSE))

\* The deletion that removes the leaf only and leaves the nodes above it.
RemoveLeaf_KeepsAncestors(s, path, side_nodes, path_nodes) ==
    RemoveResult(RemoveLoop(NodesRemove(s, path_nodes[1]), path, side_nodes, 0,
                            <<>>, <<>>, FALSE))

\* The deletion proper: orphan the path nodes, then rebuild along the side nodes.
RemoveLeaf(s, path, side_nodes, path_nodes) ==
    RemoveResult(RemoveLoop(RemoveAll(s, path_nodes, 1), path, side_nodes, 0,
                            <<>>, <<>>, FALSE))

\* remove_with_side_nodes without the comparison of the path with the path of
\* the leaf that the walk ended at.
remove_with_side_nodes_NoPathCheck(s, path, side_nodes, path_nodes, old_leaf_data) ==
    IF path_nodes[1] = placeholder
    THEN [s |-> s, ret |-> None]
    ELSE IF old_leaf_data = None
    THEN [s |-> Panic(s), ret |-> None]
    ELSE RemoveLeaf(s, path, side_nodes, path_nodes)

\* Returns [s, ret]: ret is None when the key is already empty, else the new root.
remove_with_side_nodes(s, path, side_nodes, path_nodes, old_leaf_data) ==
    IF path_nodes[1] = placeholder
    THEN [s |-> s, ret |-> None]
    ELSE IF old_leaf_data = None
    THEN [s |-> Panic(s), ret |-> None]
    ELSE IF path # parse_leaf(old_leaf_data)[1]
    THEN [s |-> s, ret |-> None]
    ELSE RemoveLeaf(s, path, side_nodes, path_nodes)

RECURSIVE ClimbLoop(_, _, _, _, _, _)
\* The loop "for i in 0..self.depth()" of update_with_side_notes from i on;
\* returns [s, current_hash].
ClimbLoop(s, path, side_nodes, common_prefix_count, i, current) ==
    IF i >= depth \/ s.st # "ok"
    THEN [s |-> s, current_hash |-> current]
    ELSE
    LET offset_of_side_nodes == depth - Len(side_nodes)
        goRight == get_bit_at_from_msb(path, depth - i - 1) = RIGHT
    IN  IF i >= offset_of_side_nodes
        THEN LET side == side_nodes[i - offset_of_side_nodes + 1]
                 d == IF goRight THEN digest_node(side, current)
                      ELSE digest_node(current, side)
             IN  ClimbLoop(NodesSet(s, d[1], d[2]), path, side_nodes,
                           common_prefix_count, i + 1, d[1])
        ELSE IF common_prefix_count # depth /\ common_prefix_count > depth - i - 1
        THEN LET d == IF goRight THEN digest_right_node(current)
                      ELSE digest_left_node(current)
             IN  ClimbLoop(NodesSet(s, d[1], d[2]), path, side_nodes,
                           common_prefix_count, i + 1, d[1])
        ELSE ClimbLoop(s, path, side_nodes, common_prefix_count, i + 1, current)

\* The first write with the value store written before it
WriteNewLeaf_ValueFirst(s, path, value) ==
    NodesSet(ValuesSet(s, path, value), digest_leaf(path, digest(value))[1],
             digest_leaf(path, digest(value))[2])

\* The first write of update_with_side_notes: the new leaf, into the node store
WriteNewLeaf(s, path, value) ==
    NodesSet(s, digest_leaf(path, digest(value))[1], digest_leaf(path, digest(value))[2])

\* Returns [s, ret]: ret is the new root (self_root on the short-circuit).
update_with_side_notes(s, self_root, path, value, side_nodes, path_nodes, old_leaf_data) ==
    LET value_hash == digest(value)
        leaf == digest_leaf(path, value_hash)
        s1 == WriteNewLeaf(s, path, value)
        empty_slot == path_nodes[1] = placeholder
        unwrapNone == ~empty_slot /\ old_leaf_data = None
        parsed == IF empty_slot \/ unwrapNone THEN <<path, None>>
                  ELSE parse_leaf(old_leaf_data)
        common_prefix_count == IF empty_slot THEN depth
                               ELSE count_common_prefix(path, parsed[1])
        old_value_hash == IF empty_slot THEN None ELSE parsed[2]
        splitter == IF get_bit_at_from_msb(path, common_prefix_count) = RIGHT
                    THEN digest_node(path_nodes[1], leaf[1])
                    ELSE digest_node(leaf[1], path_nodes[1])
        same_value == common_prefix_count = depth /\ old_value_hash # None
                      /\ value_hash = old_value_hash
        s2 == IF common_prefix_count # depth
              THEN NodesSet(s1, splitter[1], splitter[2])
              ELSE IF old_value_hash # None
              THEN ValuesRemove(NodesRemove(s1, path_nodes[1]), path)
              ELSE s1
        current == IF common_prefix_count # depth THEN splitter[1] ELSE leaf[1]
        s3 == RemoveAll(s2, path_nodes, 2)
        r == ClimbLoop(s3, path, side_nodes, common_prefix_count, 0, current)
    IN  IF unwrapNone
        THEN [s |-> Panic(s1), ret |-> None]
        ELSE IF same_value
        THEN [s |-> s1, ret |-> self_root]
        ELSE [s |-> ValuesSet(r.s, path, value), ret |-> r.current_hash]

\* The match that removes the value also when the key was already empty.
RemoveOutcome_AlwaysRemovesValue(r, path, root) ==
    IF r.s.st # "ok" THEN r
    ELSE [s |-> ValuesRemove(r.s, path),
          ret |-> IF r.ret = None THEN root ELSE r.ret]

\* The deletion that returns the root it was given instead of the new root.
RemoveOutcome_OldRoot(r, path, root) ==
    IF r.s.st # "ok" THEN r
    ELSE IF r.ret = None THEN [s |-> r.s, ret |-> root]
    ELSE [s |-> ValuesRemove(r.s, path), ret |-> root]

\* The match of update_for_root on r, what remove_with_side_nodes returned:
\* Some(new_root) removes the value and returns new_root, None returns root.
RemoveOutcome(r, path, root) ==
    IF r.s.st # "ok" THEN r
    ELSE IF r.ret = None THEN [s |-> r.s, ret |-> root]
    ELSE [s |-> ValuesRemove(r.s, path), ret |-> r.ret]

\* The store calls of side_nodes_for_root that returned w: one get for each
\* node of the path but a placeholder, and one for the sibling when asked.
WalkGets(w, get_sibling_data) ==
    Len(w.path_nodes) - (IF w.path_nodes[1] = placeholder THEN 1 ELSE 0)
    + (IF get_sibling_data /\ Len(w.side_nodes) > 0
          /\ (w.path_nodes[1] = placeholder \/ is_leaf(w.current_data))
       THEN 1 ELSE 0)

\* update_for_root after the walk w of side_nodes_for_root.
UpdateWalked(s, self_root, path, value, root, w) ==
    IF s.st # "ok" THEN [s |-> s, ret |-> None]
    ELSE IF value = DEFAULT_VALUE
    THEN RemoveOutcome(remove_with_side_nodes(s, path, w.side_nodes, w.path_nodes,
                                              w.current_data),
                       path, root)
    ELSE update_with_side_notes(s, self_root, path, value, w.side_nodes,
                                w.path_nodes, w.current_data)

\* update_for_root from the walk on: the walk's calls of get come first.
UpdateFrom(s, self_root, path, value, root, w) ==
    UpdateWalked(Reads(s, WalkGets(w, FALSE)), self_root, path, value, root, w)

\* update_for_root on the engine e; returns [s, ret] with s the operation
\* and ret the new root when s.st = "ok".
update_for_root(e, key, value, root) ==
    UpdateFrom(Begin(e, NoFault), e.root, path_of(key), value, root,
               side_nodes_for_root(e.nodes, path_of(key), root, FALSE))

\* update_for_root with stores of which the call after left calls fails.
update_for_root_failing(e, key, value, root, left) ==
    UpdateFrom(Begin(e, left), e.root, path_of(key), value, root,
               side_nodes_for_root(e.nodes, path_of(key), root, FALSE))

\* The end of update that assigns self.root whatever update_for_root returned
UpdateOutcome_AssignsAlways(e, r) ==
    [e |-> [nodes |-> r.s.nodes, values |-> r.s.values,
            root |-> IF r.ret # None THEN r.ret ELSE e.root],
     st |-> r.s.st]

\* The end of update, r being what update_for_root returned: self.root is
\* assigned only when r is Ok.
UpdateOutcome(e, r) ==
    [e |-> [nodes |-> r.s.nodes, values |-> r.s.values,
            root |-> IF r.s.st = "ok" THEN r.ret ELSE e.root],
     st |-> r.s.st]

\* update: returns [e, st].
update(e, key, value) == UpdateOutcome(e, update_for_root(e, key, value, e.root))

\* The engine after update_for_root that also assigns the root it returns
ForRootOutcome_SetsRoot(e, r) ==
    [e |-> [nodes |-> r.s.nodes, values |-> r.s.values,
            root |-> IF r.s.st = "ok" THEN r.ret ELSE e.root],
     st |-> r.s.st, ret |-> r.ret]

\* The engine after a call of update_for_root on e that returned r: the stores
\* are written, self.root is not assigned.
ForRootOutcome(e, r) ==
    [e |-> [nodes |-> r.s.nodes, values |-> r.s.values, root |-> e.root],
     st |-> r.s.st, ret |-> r.ret]

\* remove_for_root: returns [s, ret] as update_for_root does.
remove_for_root(e, key, root) == update_for_root(e, key, DEFAULT_VALUE, root)

remove(e, key) == update(e, key, DEFAULT_VALUE)

NewEngine == [nodes |-> EmptyStore, values |-> EmptyStore, root |-> placeholder]

-----------------------------------------------------------------------------
(* Proofs.  A proof is a record [side_nodes, non_membership_leaf_data,     *)
(* sibling_data].                                                          *)

SparseMerkleProof(side_nodes, non_membership_leaf_data, sibling_data) ==
    [side_nodes |-> side_nodes,
     non_membership_leaf_data |-> non_membership_leaf_data,
     sibling_data |-> sibling_data]

RECURSIVE ByteLen(_)
\* The length of a byte string, <<a, b>> for a + b * S bytes.
ByteLen(bytes) ==
    IF Len(bytes) = 0 THEN <<0, 0>>
    ELSE IF Len(bytes) = 1 THEN <<1, 0>>
    ELSE IF Len(bytes) = 2 THEN <<0, 1>>
    ELSE LET l == ByteLen(bytes[2])
             r == ByteLen(bytes[3])
         IN  <<1 + l[1] + r[1], l[2] + r[2]>>

\* do_prove_for_root that filters the placeholders out of the side nodes
ProveWalked_NoPlaceholders(path, w) ==
    SparseMerkleProof(SelectSeq(w.side_nodes, LAMBDA n : n # <<>> /\ n # placeholder),
                      None, w.sibling_data)

\* The proof that carries the bytes of whatever leaf the walk ended at
ProveWalked_AnyLeafData(path, w) ==
    SparseMerkleProof(SelectSeq(w.side_nodes, LAMBDA n : n # <<>>), w.current_data,
                      w.sibling_data)

\* do_prove_for_root after the walk w of side_nodes_for_root.
ProveWalked(path, w) ==
    LET non_empty_side_nodes == SelectSeq(w.side_nodes, LAMBDA n : n # <<>>)
        leaf_data == w.current_data
        non_membership_leaf_data ==
            IF leaf_data # None /\ w.path_nodes[1] # placeholder
               /\ parse_leaf(leaf_data)[1] # path
            THEN leaf_data ELSE None
    IN  SparseMerkleProof(non_empty_side_nodes, non_membership_leaf_data,
                          w.sibling_data)

do_prove_for_root(e, key, root, is_updatable) ==
    ProveWalked(path_of(key),
                side_nodes_for_root(e.nodes, path_of(key), root, is_updatable))

prove(e, key) == do_prove_for_root(e, key, e.root, FALSE)

prove_updatable(e, key) == do_prove_for_root(e, key, e.root, TRUE)

\* TRUE when the non-membership leaf data has the wrong size
check_non_membership_proofs_size(proof) ==
    IF proof.non_membership_leaf_data # None
    THEN ByteLen(proof.non_membership_leaf_data) # <<1, 2>>
    ELSE FALSE

\* sanity_check without the check of the hash of sibling_data
sanity_check_NoSibling(proof) ==
    /\ Len(proof.side_nodes) <= PATH_BITS
    /\ ~check_non_membership_proofs_size(proof)
    /\ \A i \in 1 .. Len(proof.side_nodes) : ByteLen(proof.side_nodes[i]) = <<0, 1>>

\* sanity_check without the checks of the sizes
sanity_check_NoSizes(proof) ==
    /\ Len(proof.side_nodes) <= PATH_BITS
    /\ (Len(proof.side_nodes) > 0 /\ proof.sibling_data # None)
          => proof.side_nodes[1] = digest(proof.sibling_data)

sanity_check(proof) ==
    IF Len(proof.side_nodes) > PATH_BITS \/ check_non_membership_proofs_size(proof)
    THEN FALSE
    ELSE IF \E i \in 1 .. Len(proof.side_nodes) : ByteLen(proof.side_nodes[i]) # <<0, 1>>
    THEN FALSE
    ELSE IF Len(proof.side_nodes) = 0
    THEN TRUE
    ELSE IF proof.sibling_data # None
    THEN proof.side_nodes[1] = digest(proof.sibling_data)
    ELSE TRUE

RECURSIVE RecomputeRoot(_, _, _)
\* The fold of verify_proof from the (0-based) index idx on.  The closure binds
\* the side node under the name path, so the bit is read from the side node.
RecomputeRoot(side_nodes, idx, current_hash) ==
    IF idx >= Len(side_nodes) THEN current_hash
    ELSE LET path == side_nodes[idx + 1]
             node == path
             num == Len(side_nodes)
         IN  IF get_bit_at_from_msb(path, num - 1 - idx) = RIGHT
             THEN RecomputeRoot(side_nodes, idx + 1, digest_node(node, current_hash)[1])
             ELSE RecomputeRoot(side_nodes, idx + 1, digest_node(current_hash, node)[1])

verify_proof(proof, root, key, value) ==
    LET path == path_of(key)
        data == proof.non_membership_leaf_data
    IN  IF ~sanity_check(proof) THEN FALSE
        ELSE IF value = DEFAULT_VALUE /\ data # None /\ parse_leaf(data)[1] = path
        THEN FALSE
        ELSE LET current_hash ==
                     IF value = DEFAULT_VALUE
                     THEN IF data # None
                          THEN digest_leaf_hash(parse_leaf(data)[1], parse_leaf(data)[2])
                          ELSE placeholder
                     ELSE digest_leaf_hash(path, digest(value))
             IN  RecomputeRoot(proof.side_nodes, 0, current_hash) = root

verify(proof, root, key, value) == verify_proof(proof, root, key, value)

RECURSIVE RecomputeRootWithUpdates(_, _, _, _, _)
\* The fold of verify_proof_with_updates from the (0-based) index idx on;
\* returns [current_hash, updates].
RecomputeRootWithUpdates(path, side_nodes, idx, current_hash, updates) ==
    IF idx >= Len(side_nodes)
    THEN [current_hash |-> current_hash, updates |-> updates]
    ELSE LET node == side_nodes[idx + 1]
             num == Len(side_nodes)
             d == IF get_bit_at_from_msb(path, num - 1 - idx) = RIGHT
                  THEN digest_node(node, current_hash)
                  ELSE digest_node(current_hash, node)
         IN  RecomputeRootWithUpdates(path, side_nodes, idx + 1, d[1],
                                      Append(updates, d))

\* Returns [ok, updates]: the verdict and the (hash, bytes) pairs hashed.
verify_proof_with_updates(proof, root, key, value) ==
    LET path == path_of(key)
        data == proof.non_membership_leaf_data
        leaf == IF value = DEFAULT_VALUE
                THEN digest_leaf(parse_leaf(data)[1], parse_leaf(data)[2])
                ELSE digest_leaf(path, digest(value))
        noLeaf == value = DEFAULT_VALUE /\ data = None
        r == RecomputeRootWithUpdates(path, proof.side_nodes, 0,
                                      IF noLeaf THEN placeholder ELSE leaf[1],
                                      IF noLeaf THEN <<>> ELSE <<leaf>>)
    IN  IF ~sanity_check(proof) THEN [ok |-> FALSE, updates |-> <<>>]
        ELSE IF value = DEFAULT_VALUE /\ data # None /\ parse_leaf(data)[1] = path
        THEN [ok |-> FALSE, updates |-> <<>>]
        ELSE [ok |-> r.current_hash = root, updates |-> r.updates]

RECURSIVE SetAll(_, _, _)
\* self.nodes.set(hash, data)? for the pairs of updates from index i on
SetAll(s, updates, i) ==
    IF i > Len(updates) THEN s
    ELSE SetAll(NodesSet(s, updates[i][1], updates[i][2]), updates, i + 1)

\* add_branch that writes the value and the nodes before it looks at the verdict
add_branch_WriteFirst(e, proof, key, val) ==
    LET v == verify_proof_with_updates(proof, e.root, key, val)
        s0 == Begin(e, NoFault)
        s1 == IF val # DEFAULT_VALUE THEN ValuesSet(s0, path_of(key), val) ELSE s0
        s2 == SetAll(s1, v.updates, 1)
    IN  [e |-> [nodes |-> s2.nodes, values |-> s2.values, root |-> e.root],
         st |-> IF v.ok THEN s2.st ELSE "badproof"]

\* add_branch without the write of the value to the value store
add_branch_NoValue(e, proof, key, val) ==
    LET v == verify_proof_with_updates(proof, e.root, key, val)
        s0 == Begin(e, NoFault)
        s2 == SetAll(s0, v.updates, 1)
        s3 == IF proof.sibling_data # None /\ Len(proof.side_nodes) > 0
              THEN NodesSet(s2, proof.side_nodes[1], proof.sibling_data)
              ELSE s2
    IN  IF ~v.ok THEN [e |-> e, st |-> "badproof"]
        ELSE [e |-> [nodes |-> s3.nodes, values |-> s3.values, root |-> e.root],
              st |-> s3.st]

\* add_branch: returns [e, st], st = "badproof" when the proof does not verify.
\* The store writes of add_branch without the write of the sibling
AddBranchWrites_NoSibling(s0, proof, key, val, updates) ==
    SetAll(IF val # DEFAULT_VALUE THEN ValuesSet(s0, path_of(key), val) ELSE s0,
           updates, 1)

\* The store writes of add_branch once the proof is verified.
AddBranchWrites(s0, proof, key, val, updates) ==
    LET s1 == IF val # DEFAULT_VALUE THEN ValuesSet(s0, path_of(key), val) ELSE s0
        s2 == SetAll(s1, updates, 1)
    IN  IF proof.sibling_data # None /\ Len(proof.side_nodes) > 0
        THEN NodesSet(s2, proof.side_nodes[1], proof.sibling_data)
        ELSE s2

\* add_branch, v being what verify_proof_with_updates returned and s the
\* operation after its writes.
AddBranchOutcome(e, v, s) ==
    IF ~v.ok THEN [e |-> e, st |-> "badproof"]
    ELSE [e |-> [nodes |-> s.nodes, values |-> s.values, root |-> e.root],
          st |-> s.st]

add_branch(e, proof, key, val) ==
    LET v == verify_proof_with_updates(proof, e.root, key, val)
    IN  AddBranchOutcome(e, v, AddBranchWrites(Begin(e, NoFault), proof, key, val,
                                               v.updates))

\* add_branch with stores of which the call after left calls fails.
add_branch_failing(e, proof, key, val, left) ==
    LET v == verify_proof_with_updates(proof, e.root, key, val)
    IN  AddBranchOutcome(e, v, AddBranchWrites(Begin(e, left), proof, key, val,
                                               v.updates))

RECURSIVE DescendLoop(_, _, _, _)
\* The loop "for i in 1..depth" of get_descend from i on.
DescendLoop(e, path, i, current_hash) ==
    IF i >= depth THEN StoreGet(e.values, path)
    ELSE LET current_data == StoreGet(e.nodes, current_hash)
             parsed == parse_node(current_data)
             next_hash == IF get_bit_at_from_msb(path, i) = RIGHT
                          THEN parsed[2] ELSE parsed[1]
         IN  IF is_leaf(current_data)
             THEN IF path # parse_leaf(current_data)[1] THEN None
                  ELSE StoreGet(e.values, path)
             ELSE IF next_hash = placeholder THEN None
             ELSE DescendLoop(e, path, i + 1, next_hash)

\* get_descend that takes the child of the root on the other side
get_descend_WrongBit(e, key) ==
    IF e.root = placeholder THEN None
    ELSE IF is_leaf(StoreGet(e.nodes, e.root))
    THEN IF path_of(key) # parse_leaf(StoreGet(e.nodes, e.root))[1] THEN None
         ELSE StoreGet(e.values, path_of(key))
    ELSE IF parse_node(StoreGet(e.nodes, e.root))[
                IF get_bit_at_from_msb(path_of(key), 0) = RIGHT THEN 1 ELSE 2] = placeholder
    THEN None
    ELSE DescendLoop(e, path_of(key), 1,
             parse_node(StoreGet(e.nodes, e.root))[
                 IF get_bit_at_from_msb(path_of(key), 0) = RIGHT THEN 1 ELSE 2])

get_descend(e, key) ==
    IF e.root = placeholder THEN None
    ELSE LET path == path_of(key)
             current_data == StoreGet(e.nodes, e.root)
             parsed == parse_node(current_data)
             current_hash == IF get_bit_at_from_msb(path, 0) = RIGHT
                             THEN parsed[2] ELSE parsed[1]
         IN  IF is_leaf(current_data)
             THEN IF path # parse_leaf(current_data)[1] THEN None
                  ELSE StoreGet(e.values, path)
             ELSE IF current_hash = placeholder THEN None
             ELSE DescendLoop(e, path, 1, current_hash)

has_descend(e, key) == get_descend(e, key) # None

RECURSIVE DescendLoopCalls(_, _, _, _)
\* The number of store calls of the loop of get_descend from i on.
DescendLoopCalls(e, path, i, current_hash) ==
    IF i >= depth THEN 1
    ELSE LET current_data == StoreGet(e.nodes, current_hash)
             parsed == parse_node(current_data)
             next_hash == IF get_bit_at_from_msb(path, i) = RIGHT
                          THEN parsed[2] ELSE parsed[1]
         IN  IF is_leaf(current_data)
             THEN IF path # parse_leaf(current_data)[1] THEN 1 ELSE 2
             ELSE IF next_hash = placeholder THEN 1
             ELSE 1 + DescendLoopCalls(e, path, i + 1, next_hash)

\* The number of store calls of get_descend(key): a get for each node of the
\* descent and the get of the value.
GetDescendCalls(e, key) ==
    IF e.root = placeholder THEN 0
    ELSE LET path == path_of(key)
             current_data == StoreGet(e.nodes, e.root)
             parsed == parse_node(current_data)
             current_hash == IF get_bit_at_from_msb(path, 0) = RIGHT
                             THEN parsed[2] ELSE parsed[1]
         IN  IF is_leaf(current_data)
             THEN IF path # parse_leaf(current_data)[1] THEN 1 ELSE 2
             ELSE IF current_hash = placeholder THEN 1
             ELSE 1 + DescendLoopCalls(e, path, 1, current_hash)

\* The number of store calls of get(key) and of contains(key)
GetCalls(e) == IF e.root = placeholder THEN 0 ELSE 1

\* The number of store calls of prove(key)
ProveCalls(e, key) ==
    WalkGets(side_nodes_for_root(e.nodes, path_of(key), e.root, FALSE), FALSE)

\* The Result of a read that makes n store calls, each returned with ? or as
\* the Result of the read, and returns ret when the stores answer all of them;
\* the call after left calls fails.
ReadResult(n, left, ret) ==
    IF left >= 0 /\ left < n THEN [st |-> "err", ret |-> None]
    ELSE [st |-> "ok", ret |-> ret]

\* The Result of a get_descend that returns an error when it finds nothing
\* under a root that is not the placeholder
GetDescendResult_ErrWhenNotFound(e, key) ==
    [st |-> IF e.root # placeholder /\ get_descend(e, key) = None THEN "err" ELSE "ok",
     ret |-> get_descend(e, key)]

\* The Result of get_descend: the get of the store returns Ok(None) for a key
\* that it does not hold, so no call made by get_descend returns an error.
GetDescendResult(e, key) == [st |-> "ok", ret |-> get_descend(e, key)]

\* The Result of has_descend: self.get_descend(key).map(|v| v.is_some())
HasDescendResult(e, key) ==
    [st |-> GetDescendResult(e, key).st, ret |-> GetDescendResult(e, key).ret # None]

import(nodes_store, values_store, root) ==
    [nodes |-> nodes_store, values |-> values_store, root |-> root]

-----------------------------------------------------------------------------
(* Compact proofs.  A compact proof is a record [side_nodes,                *)
(* non_membership_leaf_data, bitmask, num_side_nodes, sibling_data]; the    *)
(* bit mask is a sequence of bytes, each a number below 2^BYTE_BITS.  The   *)
(* outcome of a call that can end in a panic (an index or a slice out of    *)
(* range, an arithmetic overflow in a build with overflow checks) is a      *)
(* record with st = "ok", "badproof" or "panic".                            *)

SparseCompactMerkleProof(side_nodes, non_membership_leaf_data, bitmask, num_side_nodes, sibling_data) ==
    [side_nodes |-> side_nodes,
     non_membership_leaf_data |-> non_membership_leaf_data,
     bitmask |-> bitmask,
     num_side_nodes |-> num_side_nodes,
     sibling_data |-> sibling_data]

\* (n as f64 / 8.0).ceil() as usize
CeilBytes(n) == (n + BYTE_BITS - 1) \div BYTE_BITS

\* get_bit_at_from_msb on the bytes of a bit mask; data[position / 8] must exist
mask_bit_at_from_msb(data, position) ==
    (data[(position \div BYTE_BITS) + 1]
        \div Pow2(BYTE_BITS - 1 - (position % BYTE_BITS))) % 2

\* set_bit_at_from_msb that sets no bit
set_bit_at_from_msb_Unset(data, position) == data

\* set_bit_at_from_msb: n |= 1 << (8 - 1 - position % 8)
set_bit_at_from_msb(data, position) ==
    IF mask_bit_at_from_msb(data, position) = 1 THEN data
    ELSE [data EXCEPT ![(position \div BYTE_BITS) + 1] =
              @ + Pow2(BYTE_BITS - 1 - (position % BYTE_BITS))]

count_set_bits(data) ==
    Cardinality({i \in 0 .. (Len(data) * BYTE_BITS - 1) :
                    mask_bit_at_from_msb(data, i) = 1})

RECURSIVE CompactLoop(_, _, _, _)
\* The filter_map of compact from the (0-based) index idx on; returns
\* [bitmask, side_nodes].
CompactLoop(side_nodes, idx, bit_mask, compacted) ==
    IF idx >= Len(side_nodes)
    THEN [bitmask |-> bit_mask, side_nodes |-> compacted]
    ELSE IF side_nodes[idx + 1] = placeholder
    THEN CompactLoop(side_nodes, idx + 1, set_bit_at_from_msb(bit_mask, idx), compacted)
    ELSE CompactLoop(side_nodes, idx + 1, bit_mask,
                     Append(compacted, side_nodes[idx + 1]))

\* The compact proof that compact builds from a proof that passed the sanity check.
Compacted(proof, c) ==
    SparseCompactMerkleProof(c.side_nodes, proof.non_membership_leaf_data,
                             c.bitmask, Len(proof.side_nodes), proof.sibling_data)

NoCompactProof == SparseCompactMerkleProof(<<>>, None, <<>>, 0, None)

\* compact: returns [st, proof], st = "badproof" for Err(BadProof).
compact(proof) ==
    IF ~sanity_check(proof) THEN [st |-> "badproof", proof |-> NoCompactProof]
    ELSE [st |-> "ok",
          proof |-> Compacted(proof,
                        CompactLoop(proof.side_nodes, 0,
                                    [i \in 1 .. CeilBytes(Len(proof.side_nodes)) |-> 0],
                                    <<>>))]

\* The sanity check of a compact proof: "true", "false" or "panic".  The
\* subtraction num_side_nodes - count_set_bits(bitmask) is in usize: below zero
\* it panics in a build with overflow checks and wraps to a number that no
\* length equals in a build without.
compact_sanity_check(proof, overflow_checks) ==
    IF proof.num_side_nodes > PATH_BITS
       \/ Len(proof.bitmask) # CeilBytes(proof.num_side_nodes)
    THEN "false"
    ELSE IF proof.num_side_nodes = 0 THEN "true"
    ELSE IF count_set_bits(proof.bitmask) > proof.num_side_nodes
    THEN IF overflow_checks THEN "panic" ELSE "false"
    ELSE IF Len(proof.side_nodes) # proof.num_side_nodes - count_set_bits(proof.bitmask)
    THEN "false"
    ELSE "true"

RECURSIVE DecompactLoop(_, _, _, _)
\* The map of decompact over 0..num_side_nodes from idx on; returns [st, nodes].
DecompactLoop(proof, idx, position, nodes) ==
    IF idx >= proof.num_side_nodes THEN [st |-> "ok", nodes |-> nodes]
    ELSE IF (idx \div BYTE_BITS) + 1 > Len(proof.bitmask)
    THEN [st |-> "panic", nodes |-> nodes]
    ELSE IF mask_bit_at_from_msb(proof.bitmask, idx) = 1
    THEN DecompactLoop(proof, idx + 1, position, Append(nodes, placeholder))
    ELSE IF position + 1 > Len(proof.side_nodes)
    THEN [st |-> "panic", nodes |-> nodes]
    ELSE DecompactLoop(proof, idx + 1, position + 1,
                       Append(nodes, proof.side_nodes[position + 1]))

NoProof == SparseMerkleProof(<<>>, None, None)

\* decompact after the sanity check returned sane and the loop returned r.
Decompacted(proof, sane, r) ==
    IF sane = "panic" THEN [st |-> "panic", proof |-> NoProof]
    ELSE IF sane = "false" THEN [st |-> "badproof", proof |-> NoProof]
    ELSE IF r.st = "panic" THEN [st |-> "panic", proof |-> NoProof]
    ELSE [st |-> "ok",
          proof |-> SparseMerkleProof(r.nodes, proof.non_membership_leaf_data,
                                      proof.sibling_data)]

\* decompact: returns [st, proof], st = "badproof" for Err(BadProof).
decompact(proof, overflow_checks) ==
    Decompacted(proof, compact_sanity_check(proof, overflow_checks),
                DecompactLoop(proof, 0, 0, <<>>))

\* The length len = <<a, b>> (a + b * S bytes) is below min = <<a0, b0>>.
Shorter(len, min) == len[2] < min[2] \/ (len[2] = min[2] /\ len[1] < min[1])

\* verify of a proof: "true", "false" or "panic", a panic being a slice or an
\* index out of range: parse_leaf slices data[1..1+S] and data[1+S..],
\* path.slice(..S) needs S bytes and get_bit_at_from_msb reads the byte
\* (num - 1 - idx) / 8 of the side node.
VerifyOutcome(proof, root, key, value) ==
    IF ~sanity_check(proof) THEN "false"
    ELSE IF value = DEFAULT_VALUE /\ proof.non_membership_leaf_data # None
            /\ Shorter(ByteLen(proof.non_membership_leaf_data), <<1, 1>>)
    THEN "panic"
    ELSE IF value = DEFAULT_VALUE /\ proof.non_membership_leaf_data # None
            /\ parse_leaf(proof.non_membership_leaf_data)[1] = path_of(key)
    THEN "false"
    ELSE IF \E i \in 1 .. Len(proof.side_nodes) :
                Shorter(ByteLen(proof.side_nodes[i]), <<0, 1>>)
    THEN "panic"
    ELSE IF Len(proof.side_nodes) > PATH_BITS THEN "panic"
    ELSE IF verify(proof, root, key, value) THEN "true" ELSE "false"

\* verify of a compact proof: decompact().map(|proof| proof.verify(..))
\* .unwrap_or(false)
CompactVerified(d, root, key, value) ==
    IF d.st = "panic" THEN "panic"
    ELSE IF d.st = "badproof" THEN "false"
    ELSE VerifyOutcome(d.proof, root, key, value)

compact_verify(proof, root, key, value, overflow_checks) ==
    CompactVerified(decompact(proof, overflow_checks), root, key, value)

-----------------------------------------------------------------------------
(* The tree that the node store holds under a root *)

RECURSIVE Reachable(_, _, _)
\* The hashes of the nodes met when descending from the hash h at most n levels,
\* h included; a placeholder is no node.
Reachable(nodes, h, n) ==
    IF h = placeholder THEN {}
    ELSE IF n = 0 \/ h \notin DOMAIN nodes \/ is_leaf(StoreGet(nodes, h)) THEN {h}
    ELSE {h} \cup Reachable(nodes, nodes[h][2], n - 1)
             \cup Reachable(nodes, nodes[h][3], n - 1)

Tree(e) == Reachable(e.nodes, e.root, depth)

Leaves(e) == {h \in Tree(e) : is_leaf(StoreGet(e.nodes, h))}

-----------------------------------------------------------------------------
(* The state machine.  smt is an engine created fresh, on which update and *)
(* remove are called.  dsmst is a second engine, imported with empty       *)
(* stores at the root of smt; add_branch is called on it with updatable    *)
(* proofs of smt, and then the same update and remove calls are made on    *)
(* both engines (test_deep_sparse_merkle_sub_tree_basic).                  *)
(*   kv     the last value written to each key of smt (the empty value     *)
(*          when the key was never written or was removed)                 *)
(*   last   the last call: its arguments, its outcome on smt (st) and on   *)
(*          dsmst (sub_st), the engine smt before it; undoes is TRUE when  *)
(*          the call removes the key that the call before it inserted into *)
(*          a tree without that key, and origin is then the engine before  *)
(*          that insertion                                                 *)
(*   added  the keys whose branch was added to dsmst                       *)
(*   phase  "build", then "branch" from import on, then "ops" from the     *)
(*          first call made on both engines on                             *)
(*   subOps the number of calls made on both engines                       *)

\* at most MaxBranches calls of add_branch
MaxBranches == 2
\* at most MaxSubOps calls on both engines
MaxSubOps == 2

\* The key has no leaf in the tree of the engine e.
Absent(e, key) == \A h \in Leaves(e) : e.nodes[h][2] # path_of(key)

Call(op, key, value, st, sub_st, before, undoes, origin) ==
    [op |-> op, key |-> key, value |-> value, st |-> st, sub_st |-> sub_st,
     before |-> before, undoes |-> undoes, origin |-> origin]

NoCall == Call("new", <<>>, <<>>, "ok", "ok", NewEngine, FALSE, NewEngine)

Init ==
    /\ smt = NewEngine
    /\ kv = [k \in Keys |-> DEFAULT_VALUE]
    /\ last = NoCall
    /\ dsmst = NewEngine
    /\ added = {}
    /\ phase = "build"
    /\ subOps = 0

\* This call of update(key, value) or remove(key) removes the key that the
\* call before it inserted.
Undoes(key, value) ==
    /\ value = DEFAULT_VALUE
    /\ last.op = "update" /\ last.st = "ok"
    /\ last.key = key /\ last.value # DEFAULT_VALUE
    /\ Absent(last.before, key)

\* The call op(key, value) on smt returned r = [e, st].
Returned(op, key, value, r, undoes) ==
    /\ smt' = r.e
    /\ kv' = IF r.st = "ok" THEN [kv EXCEPT ![key] = value] ELSE kv
    /\ last' = Call(op, key, value, r.st, "ok", smt, undoes,
                    IF undoes THEN last.before ELSE NewEngine)

Update(key, value) ==
    /\ phase = "build"
    /\ last.st # "panic"
    /\ Returned("update", key, value, update(smt, key, value), Undoes(key, value))
    /\ UNCHANGED <<dsmst, added, phase, subOps>>

Remove(key) ==
    /\ phase = "build"
    /\ last.st # "panic"
    /\ Returned("remove", key, DEFAULT_VALUE, remove(smt, key),
                Undoes(key, DEFAULT_VALUE))
    /\ UNCHANGED <<dsmst, added, phase, subOps>>

\* SparseMerkleTree::import(SimpleStore::new(), SimpleStore::new(), smt.root())
Import ==
    /\ phase = "build"
    /\ last.st # "panic"
    /\ dsmst' = import(EmptyStore, EmptyStore, smt.root)
    /\ phase' = "branch"
    /\ last' = Call("import", <<>>, <<>>, "ok", "ok", NewEngine, FALSE, NewEngine)
    /\ UNCHANGED <<smt, kv, added, subOps>>

\* dsmst.add_branch(smt.prove_updatable(key), key, smt.get(key) or empty)
\* The call add_branch(proof, key, val) on dsmst returned r = [e, st].
BranchReturned(key, val, r) ==
    /\ dsmst' = r.e
    /\ last' = Call("add_branch", key, val, "ok", r.st, NewEngine, FALSE, NewEngine)

\* smt.get(key), the empty value when it is None
ValueOrEmpty(got) == IF got = None THEN DEFAULT_VALUE ELSE got

AddBranch(key) ==
    /\ phase = "branch"
    /\ key \notin added
    /\ Cardinality(added) < MaxBranches
    /\ BranchReturned(key, ValueOrEmpty(get(smt, key)),
                      add_branch(dsmst, prove_updatable(smt, key), key,
                                 ValueOrEmpty(get(smt, key))))
    /\ added' = added \cup {key}
    /\ UNCHANGED <<smt, kv, phase, subOps>>

\* update(key, value) returned r = [e, st] on smt and q = [e, st] on dsmst.
BothReturned(key, value, r, q) ==
    /\ smt' = r.e
    /\ dsmst' = q.e
    /\ kv' = IF r.st = "ok" THEN [kv EXCEPT ![key] = value] ELSE kv
    /\ last' = Call("update_both", key, value, r.st, q.st, NewEngine, FALSE, NewEngine)

\* smt.update(key, value) and dsmst.update(key, value), for a key whose branch
\* was added
UpdateBoth(key, value) ==
    /\ phase \in {"branch", "ops"}
    /\ key \in added
    /\ subOps < MaxSubOps
    /\ last.st # "panic" /\ last.sub_st # "panic"
    /\ BothReturned(key, value, update(smt, key, value), update(dsmst, key, value))
    /\ phase' = "ops"
    /\ subOps' = subOps + 1
    /\ UNCHANGED added

Next ==
    \/ \E key \in Keys, value \in Values \cup {DEFAULT_VALUE} : Update(key, value)
    \/ \E key \in Keys : Remove(key)

Spec == Init /\ [][Next]_vars

NextBranch ==
    \/ Next
    \/ Import
    \/ \E key \in Keys : AddBranch(key)

\* update and remove on a fresh engine, then import and add_branch
SpecBranch == Init /\ [][NextBranch]_vars

NextSub ==
    \/ NextBranch
    \/ \E key \in Keys, value \in Values \cup {DEFAULT_VALUE} : UpdateBoth(key, value)

\* the same, then update and remove on both engines
SpecSub == Init /\ [][NextSub]_vars

\* The proof with its first side node replaced by other bytes of the same
\* length (test_deep_sparse_merkle_sub_tree_bad_input)
BadSideNode(proof) ==
    IF Len(proof.side_nodes) = 0 THEN proof
    ELSE [proof EXCEPT !.side_nodes[1] = <<3, 1>>]

\* The proofs handed to add_branch: the proofs of smt, updatable or not, for
\* any key, as generated or with a bad first side node.
ProofsOf(e) ==
    {do_prove_for_root(e, k, e.root, u) : k \in Keys, u \in BOOLEAN}
        \cup {BadSideNode(do_prove_for_root(e, k, e.root, u)) : k \in Keys, u \in BOOLEAN}

\* The proofs handed to add_branch for the key: the updatable proof of smt for
\* the key, the same with a bad first side node, and the proof of smt for
\* another key.
ProofsFor(e, key) ==
    {prove_updatable(e, key), BadSideNode(prove_updatable(e, key)),
     prove(e, <<(key[1] + 1) % NumKeys>>)}

\* The call add_branch(proof, key, val) on dsmst returned r = [e, st]; before
\* is dsmst before the call.
AnyBranchReturned(key, val, r) ==
    /\ dsmst' = r.e
    /\ added' = IF r.st = "ok" THEN added \cup {key} ELSE added
    /\ last' = Call("add_any_branch", key, val, "ok", r.st, dsmst, FALSE, NewEngine)

\* dsmst.add_branch(proof, key, val) with a proof that verifies or does not
AddAnyBranch(proof, key, val) ==
    /\ phase = "branch"
    /\ Cardinality(added) < MaxBranches
    /\ AnyBranchReturned(key, val, add_branch(dsmst, proof, key, val))
    /\ UNCHANGED <<smt, kv, phase, subOps>>

NextAny ==
    \/ Next
    \/ Import
    \/ \E key \in Keys, val \in Values \cup {DEFAULT_VALUE} :
           \E proof \in ProofsFor(smt, key) : AddAnyBranch(proof, key, val)

\* update and remove on a fresh engine, then import and add_branch with proofs
\* that verify and proofs that do not
SpecAny == Init /\ [][NextAny]_vars

-----------------------------------------------------------------------------
(* Calls of the proof functions.  They leave the engines as they are; last  *)
(* records the call: arg is the proof it was made on, res what it returned. *)
(* No call follows them (phase = "proof").                                  *)

ProofCall(op, arg, root, key, value, res) ==
    [op |-> op, key |-> key, value |-> value, st |-> "ok", sub_st |-> "ok",
     before |-> NewEngine, undoes |-> FALSE, origin |-> NewEngine,
     arg |-> arg, root |-> root, res |-> res]

\* The proofs that prove and prove_updatable generate on the engine e.
GeneratedProofs(e) ==
    {do_prove_for_root(e, k, e.root, u) : k \in Keys, u \in BOOLEAN}

\* The roots handed to verify: the root of smt and other bytes of its length.
RootsOf(e) == {e.root, <<3, 1>>}

\* smt.prove(key) or smt.prove_updatable(key)
Prove(key, is_updatable) ==
    /\ phase = "build"
    /\ last.st # "panic"
    /\ last' = ProofCall("prove", NoProof, smt.root, key, DEFAULT_VALUE,
                         do_prove_for_root(smt, key, smt.root, is_updatable))
    /\ phase' = "proof"
    /\ UNCHANGED <<smt, kv, dsmst, added, subOps>>

\* proof.compact()
Compact(proof) ==
    /\ phase = "build"
    /\ last.st # "panic"
    /\ last' = ProofCall("compact", proof, smt.root, <<>>, DEFAULT_VALUE, compact(proof))
    /\ phase' = "proof"
    /\ UNCHANGED <<smt, kv, dsmst, added, subOps>>

\* proof.verify(root, key, value)
Verify(proof, root, key, value) ==
    /\ phase = "build"
    /\ last.st # "panic"
    /\ last' = ProofCall("verify", proof, root, key, value,
                         VerifyOutcome(proof, root, key, value))
    /\ phase' = "proof"
    /\ UNCHANGED <<smt, kv, dsmst, added, subOps>>

NextProof ==
    \/ Next
    \/ \E key \in Keys, is_updatable \in BOOLEAN : Prove(key, is_updatable)
    \/ \E proof \in GeneratedProofs(smt) : Compact(proof)
    \/ \E proof \in GeneratedProofs(smt), root \in RootsOf(smt), key \in Keys,
           value \in Values \cup {DEFAULT_VALUE} : Verify(proof, root, key, value)

\* update and remove on a fresh engine, then a call of prove, compact or verify
SpecProof == Init /\ [][NextProof]_vars

-----------------------------------------------------------------------------
(* Calls of update_for_root and remove_for_root on smt, with the root of    *)
(* smt, the root before the last call, the placeholder or other bytes.  No  *)
(* call follows them (phase = "forroot").                                   *)

ForRootCall(op, key, value, root, r) ==
    [op |-> op, key |-> key, value |-> value, st |-> r.st, sub_st |-> "ok",
     before |-> smt, undoes |-> FALSE, origin |-> NewEngine,
     root |-> root, res |-> r.ret]

\* The call on smt returned r = [e, st, ret].
ForRootReturned(op, key, value, root, r) ==
    /\ smt' = r.e
    /\ last' = ForRootCall(op, key, value, root, r)

RootsForCall == {smt.root, last.before.root, placeholder, <<3, 1>>}

\* smt.update_for_root(key, value, root)
UpdateForRoot(key, value, root) ==
    /\ phase = "build"
    /\ last.st # "panic"
    /\ ForRootReturned("update_for_root", key, value, root,
                       ForRootOutcome(smt, update_for_root(smt, key, value, root)))
    /\ phase' = "forroot"
    /\ UNCHANGED <<kv, dsmst, added, subOps>>

\* smt.remove_for_root(key, root)
RemoveForRoot(key, root) ==
    /\ phase = "build"
    /\ last.st # "panic"
    /\ ForRootReturned("remove_for_root", key, DEFAULT_VALUE, root,
                       ForRootOutcome(smt, remove_for_root(smt, key, root)))
    /\ phase' = "forroot"
    /\ UNCHANGED <<kv, dsmst, added, subOps>>

NextForRoot ==
    \/ Next
    \/ \E key \in Keys, value \in Values \cup {DEFAULT_VALUE}, root \in RootsForCall :
          UpdateForRoot(key, value, root)
    \/ \E key \in Keys, root \in RootsForCall : RemoveForRoot(key, root)

\* update and remove on a fresh engine, then a call of update_for_root or
\* remove_for_root
SpecForRoot == Init /\ [][NextForRoot]_vars

-----------------------------------------------------------------------------
(* Proofs that a caller builds: a generated proof with one part replaced.   *)

\* Byte strings that do not have the length of a leaf (1 + 2 * S): of 0, 1, S
\* and 1 + S bytes.
WrongLeafData == {<<>>, <<0>>, <<3, 1>>, <<0, <<3, 1>>, <<>>>>}

\* Byte strings that do not have the length of a hash (S): of 0, 1 and 1 + 2 * S
\* bytes.
WrongSideNodes == {<<>>, <<0>>, <<0, <<3, 1>>, <<3, 1>>>>}

\* Byte strings of the length of a leaf that are not the leaf of the proof.
OtherLeafData == {<<LEAF_PREFIX, <<3, 1>>, <<3, 2>>>>, <<NODE_PREFIX, placeholder, placeholder>>}

TooManySideNodes(proof) ==
    [proof EXCEPT !.side_nodes = [i \in 1 .. (PATH_BITS + 1) |-> placeholder]]

\* The proofs made of proof by one replacement.
ReplacedProofs(proof) ==
    {TooManySideNodes(proof), BadSideNode(proof)}
    \cup {[proof EXCEPT !.non_membership_leaf_data = d] : d \in WrongLeafData \cup OtherLeafData}
    \cup {[proof EXCEPT !.side_nodes[i] = d] :
             i \in {1, Len(proof.side_nodes)} \cap DOMAIN proof.side_nodes, d \in WrongSideNodes}
    \cup {[proof EXCEPT !.sibling_data = d] : d \in {None, <<>>, <<3, 1>>}}

\* The full proofs handed to verify and compact: the proofs generated on e and
\* the proofs made of them.
FullProofs(e) ==
    GeneratedProofs(e) \cup UNION {ReplacedProofs(proof) : proof \in GeneratedProofs(e)}

\* The full proofs handed to verify with key: the proofs generated for key and
\* for another key, and the proofs made of them.
FullProofsFor(e, key) ==
    LET generated == {prove(e, key), prove_updatable(e, key),
                      prove(e, <<(key[1] + 1) % NumKeys>>)}
    IN  generated \cup UNION {ReplacedProofs(proof) : proof \in generated}

NextFull ==
    \/ Next
    \/ \E proof \in FullProofs(smt) : Compact(proof)
    \/ \E key \in Keys : \E proof \in FullProofsFor(smt, key) :
          \E root \in RootsOf(smt), value \in Values \cup {DEFAULT_VALUE} :
              Verify(proof, root, key, value)

\* update and remove on a fresh engine, then a call of compact or verify on a
\* proof that the caller supplies
SpecFull == Init /\ [][NextFull]_vars

-----------------------------------------------------------------------------
(* Compact proofs that a caller builds: the compact form of a generated     *)
(* proof with one field replaced.  overflow_checks tells whether the build  *)
(* checks the arithmetic for overflow.                                      *)

CompactCall(op, arg, root, key, value, overflow_checks, res) ==
    [op |-> op, key |-> key, value |-> value, st |-> "ok", sub_st |-> "ok",
     before |-> NewEngine, undoes |-> FALSE, origin |-> NewEngine,
     arg |-> arg, root |-> root, res |-> res, overflow_checks |-> overflow_checks]

\* The bit masks of len bytes.
BitMasks(len) == [1 .. len -> 0 .. (Pow2(BYTE_BITS) - 1)]

\* The compact proofs made of the compact proof c by one replacement.
ReplacedCompactProofs(c) ==
    {[c EXCEPT !.bitmask = m] :
        m \in BitMasks(Len(c.bitmask)) \cup {<<>>, Append(c.bitmask, 0)}}
    \cup {[c EXCEPT !.num_side_nodes = n] : n \in 0 .. (PATH_BITS + 1)}
    \cup {[c EXCEPT !.side_nodes = nodes] :
             nodes \in {<<>>, Append(c.side_nodes, <<3, 1>>), c.side_nodes \o c.side_nodes}}

\* The compact proofs handed to decompact and verify with key.
CompactProofsFor(e, key) ==
    LET generated == {compact(prove(e, key)).proof, compact(prove_updatable(e, key)).proof,
                      compact(prove(e, <<(key[1] + 1) % NumKeys>>)).proof}
    IN  UNION {ReplacedCompactProofs(c) : c \in generated}

\* proof.decompact()
Decompact(proof, overflow_checks) ==
    /\ phase = "build"
    /\ last.st # "panic"
    /\ last' = CompactCall("decompact", proof, smt.root, <<>>, DEFAULT_VALUE,
                           overflow_checks, decompact(proof, overflow_checks))
    /\ phase' = "proof"
    /\ UNCHANGED <<smt, kv, dsmst, added, subOps>>

\* proof.verify(root, key, value) on a compact proof
CompactVerify(proof, root, key, value, overflow_checks) ==
    /\ phase = "build"
    /\ last.st # "panic"
    /\ last' = CompactCall("compact_verify", proof, root, key, value, overflow_checks,
                           compact_verify(proof, root, key, value, overflow_checks))
    /\ phase' = "proof"
    /\ UNCHANGED <<smt, kv, dsmst, added, subOps>>

NextCompact ==
    \/ Next
    \/ \E key \in Keys : \E proof \in CompactProofsFor(smt, key) :
          \E overflow_checks \in BOOLEAN :
              \/ Decompact(proof, overflow_checks)
              \/ \E value \in Values \cup {DEFAULT_VALUE} :
                    CompactVerify(proof, smt.root, key, value, overflow_checks)

\* update and remove on a fresh engine, then a call of decompact or verify on
\* a compact proof that the caller supplies
SpecCompact == Init /\ [][NextCompact]_vars

-----------------------------------------------------------------------------
(* Calls on stores that fail.  The KVStore trait lets every call return an  *)
(* error; the call of an operation that fails is drawn among all the calls  *)
(* that the operation makes on stores that answer.  An update or a remove  *)
(* is also made with stores that answer all its calls (left = needed), and *)
(* the writes it made are recorded.                                        *)

\* The call op(key, value) made needed store calls on stores that answer;
\* on stores of which the call after left calls fails it returned st and res.
FaultCall(op, key, value, left, needed, st, res, before, log) ==
    [op |-> op, key |-> key, value |-> value, left |-> left, needed |-> needed,
     st |-> st, res |-> res, before |-> before, log |-> log]

\* update(key, value) on smt returned: r is what update_for_root returned.
FailingReturned(op, key, value, left, needed, r) ==
    /\ smt' = UpdateOutcome(smt, r).e
    /\ last' = FaultCall(op, key, value, left, needed, UpdateOutcome(smt, r).st,
                         r.ret, smt, r.s.log)
    /\ phase' = "fault"
    /\ UNCHANGED <<kv, dsmst, added, subOps>>

UpdateFailing(key, value) ==
    /\ phase = "build"
    /\ \E left \in 0 .. update_for_root(smt, key, value, smt.root).s.calls :
          FailingReturned("update", key, value, left,
                          update_for_root(smt, key, value, smt.root).s.calls,
                          update_for_root_failing(smt, key, value, smt.root, left))

RemoveFailing(key) ==
    /\ phase = "build"
    /\ \E left \in 0 .. remove_for_root(smt, key, smt.root).s.calls :
          FailingReturned("remove", key, DEFAULT_VALUE, left,
                          remove_for_root(smt, key, smt.root).s.calls,
                          update_for_root_failing(smt, key, DEFAULT_VALUE, smt.root,
                                                  left))

ReadOps == {"get", "contains", "get_descend", "prove"}

\* The number of store calls of the read op(key) on e
ReadCalls(op, e, key) ==
    CASE op = "get" -> GetCalls(e)
      [] op = "contains" -> GetCalls(e)
      [] op = "get_descend" -> GetDescendCalls(e, key)
      [] op = "prove" -> ProveCalls(e, key)

\* What the read op(key) on e returns when the stores answer
ReadValue(op, e, key) ==
    CASE op = "get" -> get(e, key)
      [] op = "contains" -> contains(e, key)
      [] op = "get_descend" -> get_descend(e, key)
      [] op = "prove" -> prove(e, key)

ReadFailing(op, key) ==
    /\ phase = "build"
    /\ \E left \in 0 .. (ReadCalls(op, smt, key) - 1) :
          last' = FaultCall(op, key, <<>>, left, ReadCalls(op, smt, key),
                            ReadResult(ReadCalls(op, smt, key), left,
                                       ReadValue(op, smt, key)).st,
                            ReadResult(ReadCalls(op, smt, key), left,
                                       ReadValue(op, smt, key)).ret,
                            smt, <<>>)
    /\ phase' = "fault"
    /\ UNCHANGED <<smt, kv, dsmst, added, subOps>>

\* The store calls of add_branch(proof, key, val) on e
AddBranchCalls(e, proof, key, val) ==
    AddBranchWrites(Begin(e, NoFault), proof, key, val,
                    verify_proof_with_updates(proof, e.root, key, val).updates).calls

\* add_branch of the proof of key on an engine imported with the root of smt
AddBranchFailing(key) ==
    /\ phase = "build"
    /\ \E left \in 0 .. (AddBranchCalls(import(EmptyStore, EmptyStore, smt.root),
                                         prove_updatable(smt, key), key,
                                         ValueOrEmpty(get(smt, key))) - 1) :
          /\ dsmst' = add_branch_failing(import(EmptyStore, EmptyStore, smt.root),
                                         prove_updatable(smt, key), key,
                                         ValueOrEmpty(get(smt, key)), left).e
          /\ last' = FaultCall("add_branch", key, ValueOrEmpty(get(smt, key)), left,
                               AddBranchCalls(import(EmptyStore, EmptyStore, smt.root),
                                              prove_updatable(smt, key), key,
                                              ValueOrEmpty(get(smt, key))),
                               add_branch_failing(
                                   import(EmptyStore, EmptyStore, smt.root),
                                   prove_updatable(smt, key), key,
                                   ValueOrEmpty(get(smt, key)), left).st,
                               None, import(EmptyStore, EmptyStore, smt.root), <<>>)
    /\ phase' = "fault"
    /\ UNCHANGED <<smt, kv, added, subOps>>

NextFault ==
    \/ \E key \in Keys, value \in Values : Update(key, value)
    \/ \E key \in Keys : Remove(key)
    \/ \E key \in Keys, value \in Values : UpdateFailing(key, value)
    \/ \E key \in Keys : RemoveFailing(key)
    \/ \E op \in ReadOps, key \in Keys : ReadFailing(op, key)
    \/ \E key \in Keys : AddBranchFailing(key)

SpecFault == Init /\ [][NextFault]_vars

-----------------------------------------------------------------------------
(* Engines imported with a node store that is not the store of a tree: the  *)
(* store of smt without one of its entries, or with an internal node whose *)
(* children are the root, so that the entries refer to each other in a     *)
(* cycle.                                                                  *)

\* import(nodes, values of smt, root of smt)
ImportNodes(nodes) ==
    /\ phase = "build"
    /\ dsmst' = import(nodes, smt.values, smt.root)
    /\ phase' = "corrupt"
    /\ last' = Call("import", <<>>, <<>>, "ok", "ok", NewEngine, FALSE, NewEngine)
    /\ UNCHANGED <<smt, kv, added, subOps>>

ImportMissing(h) ==
    /\ h \in DOMAIN smt.nodes
    /\ ImportNodes(StoreRemove(smt.nodes, h))

ImportCycle(h) ==
    /\ h \in DOMAIN smt.nodes
    /\ ~is_leaf(StoreGet(smt.nodes, h))
    /\ ImportNodes(StoreSet(smt.nodes, h, <<NODE_PREFIX, smt.root, smt.root>>))

\* The call op(key, value) on dsmst ended with st after steps descent steps.
CorruptCall(op, key, value, st, steps) ==
    [op |-> op, key |-> key, value |-> value, st |-> st, steps |-> steps,
     before |-> dsmst]

\* The descent steps of the walk of e for key
WalkSteps(e, key) ==
    Len(side_nodes_for_root(e.nodes, path_of(key), e.root, FALSE).side_nodes)

\* dsmst.update(key, value), dsmst.remove(key) for the empty value
UpdateCorrupt(key, value) ==
    /\ phase = "corrupt"
    /\ dsmst' = update(dsmst, key, value).e
    /\ last' = CorruptCall(IF value = DEFAULT_VALUE THEN "remove" ELSE "update", key,
                           value, update(dsmst, key, value).st, WalkSteps(dsmst, key))
    /\ phase' = "called"
    /\ UNCHANGED <<smt, kv, added, subOps>>

\* dsmst.prove(key)
ProveCorrupt(key) ==
    /\ phase = "corrupt"
    /\ last' = CorruptCall("prove", key, prove(dsmst, key), "ok", WalkSteps(dsmst, key))
    /\ phase' = "called"
    /\ UNCHANGED <<smt, dsmst, kv, added, subOps>>

\* dsmst.get_descend(key): its descent steps are its calls of self.nodes.get
GetDescendCorrupt(key) ==
    /\ phase = "corrupt"
    /\ last' = CorruptCall("get_descend", key, GetDescendResult(dsmst, key).ret,
                           GetDescendResult(dsmst, key).st,
                           GetDescendCalls(dsmst, key))
    /\ phase' = "called"
    /\ UNCHANGED <<smt, dsmst, kv, added, subOps>>

NextCorrupt ==
    \/ \E key \in Keys, value \in Values : Update(key, value)
    \/ \E key \in Keys : Remove(key)
    \/ \E h \in DOMAIN smt.nodes : ImportMissing(h)
    \/ \E h \in DOMAIN smt.nodes : ImportCycle(h)
    \/ \E key \in Keys, value \in Values \cup {DEFAULT_VALUE} : UpdateCorrupt(key, value)
    \/ \E key \in Keys : ProveCorrupt(key)
    \/ \E key \in Keys : GetDescendCorrupt(key)

SpecCorrupt == Init /\ [][NextCorrupt]_vars

-----------------------------------------------------------------------------
(* C1 *)

\* C1: after any sequence of update and remove calls on a fresh engine, get(k)
\* is Some(v) for the last value v written to k when v is non-empty and None
\* when k was never written or was last written the empty value, and
\* contains(k) is true exactly when get(k) is Some.
C1_RoundTrip ==
    \A k \in Keys :
        /\ get(smt, k) = (IF kv[k] = DEFAULT_VALUE THEN None ELSE kv[k])
        /\ contains(smt, k) <=> (get(smt, k) # None)

\* A key that held a value has just been removed and reads None, while another
\* key reads the value last written to it.
C1_Witness ==
    /\ last.op = "remove" /\ last.st = "ok"
    /\ get(last.before, last.key) # None
    /\ get(smt, last.key) = None /\ ~contains(smt, last.key)
    /\ \E k \in Keys : kv[k] # DEFAULT_VALUE /\ get(smt, k) = kv[k]

-----------------------------------------------------------------------------
(* C2 *)

RECURSIVE InsertAll(_, _, _)
\* The engine after update(<<k>>, m[<<k>>]) for k = i, i+1, .. NumKeys-1 in this
\* order, for the keys that m binds to a non-empty value.
InsertAll(e, m, i) ==
    IF i >= NumKeys THEN e
    ELSE IF m[<<i>>] = DEFAULT_VALUE THEN InsertAll(e, m, i + 1)
    ELSE InsertAll(update(e, <<i>>, m[<<i>>]).e, m, i + 1)

\* C2: two sequences of update/remove calls on fresh engines that end with the
\* same key-to-value mapping end with identical roots: the root after any
\* sequence is the root after inserting its final mapping in ascending key
\* order into a fresh engine.
C2_RootDeterminism == smt.root = InsertAll(NewEngine, kv, 0).root

\* A removal left at least two keys, reached in an order that is not the
\* ascending one.
C2_Witness ==
    /\ last.op = "remove" /\ last.st = "ok"
    /\ get(last.before, last.key) # None
    /\ Cardinality({k \in Keys : kv[k] # DEFAULT_VALUE}) >= 2
    /\ smt.root # placeholder

-----------------------------------------------------------------------------
(* C5 *)

-----------------------------------------------------------------------------
(* C7 *)

RECURSIVE Rehash(_, _, _)
\* The hash of the subtree under h, recomputed bottom-up from the stored bytes.
Rehash(nodes, h, n) ==
    IF h = placeholder \/ h \notin DOMAIN nodes \/ n < 0 THEN h
    ELSE IF is_leaf(nodes[h]) THEN digest(nodes[h])
    ELSE digest(<<nodes[h][1], Rehash(nodes, nodes[h][2], n - 1),
                  Rehash(nodes, nodes[h][3], n - 1)>>)

\* C7: after every successful update/remove the root is the placeholder or the
\* key of a node-store entry, every node reachable from the root has an entry
\* stored under the hash of its own bytes that is a leaf or an internal node,
\* and rehashing the reachable tree bottom-up yields the root.
C7_RootReflectsState ==
    last.st = "ok" =>
        /\ smt.root = placeholder \/ smt.root \in DOMAIN smt.nodes
        /\ \A h \in Tree(smt) :
              /\ h \in DOMAIN smt.nodes
              /\ h = digest(smt.nodes[h])
              /\ Len(smt.nodes[h]) = 3
              /\ smt.nodes[h][1] \in {LEAF_PREFIX, NODE_PREFIX}
        /\ Rehash(smt.nodes, smt.root, depth) = smt.root

\* A successful call left a tree with an internal root and a leaf at the
\* maximum depth.
C7_Witness ==
    /\ last.op \in {"update", "remove"} /\ last.st = "ok"
    /\ smt.root \in DOMAIN smt.nodes /\ ~is_leaf(smt.nodes[smt.root])
    /\ \E k \in Keys :
          Len(side_nodes_for_root(smt.nodes, path_of(k), smt.root, FALSE).side_nodes)
              = depth

-----------------------------------------------------------------------------
(* C8 *)

\* C8: the value store has an entry at path P exactly when the tree reachable
\* from the root has a leaf with path P, and the value hash inside that leaf is
\* the hash of the value stored at P.
C8_ValueLeafCoherence ==
    /\ DOMAIN smt.values = {smt.nodes[h][2] : h \in Leaves(smt)}
    /\ \A h \in Leaves(smt) :
          smt.nodes[h][3] = digest(StoreGet(smt.values, smt.nodes[h][2]))

\* A value has just been overwritten while another key holds a value.
C8_Witness ==
    /\ last.op = "update" /\ last.st = "ok" /\ last.value # DEFAULT_VALUE
    /\ get(last.before, last.key) \notin {None, last.value}
    /\ Cardinality(DOMAIN smt.values) >= 2
    /\ Cardinality(Leaves(smt)) >= 2

-----------------------------------------------------------------------------
(* C3, C4 *)

\* Roots to verify against: the placeholder and every hash of the node store
\* now and before the last call.
SomeRoots == {placeholder} \cup DOMAIN smt.nodes \cup DOMAIN last.before.nodes

\* C3: for every key k bound to a non-empty value v, prove(k).verify(root, k, v)
\* is true, prove(k).verify(root, k, v') is false for every other v' and
\* prove(k).verify(root', k, v) is false for every other root'.
C3_MembershipSoundness ==
    \A k \in Keys :
        get(smt, k) # None =>
            LET proof == prove(smt, k)
                v == get(smt, k)
            IN  /\ verify(proof, smt.root, k, v)
                /\ \A v2 \in (Values \cup {DEFAULT_VALUE}) \ {v} :
                       ~verify(proof, smt.root, k, v2)
                /\ \A root2 \in SomeRoots \ {smt.root} : ~verify(proof, root2, k, v)

\* C4: for every key k that is not present, prove(k).verify(root, k, empty) is
\* true and prove(k).verify(root, k, v) is false for every non-empty v.
C4_NonMembershipSoundness ==
    \A k \in Keys :
        get(smt, k) = None =>
            LET proof == prove(smt, k)
            IN  /\ verify(proof, smt.root, k, DEFAULT_VALUE)
                /\ \A v \in Values : ~verify(proof, smt.root, k, v)

-----------------------------------------------------------------------------
(* C6 *)

\* C6: for a key k absent from the tree, update(k, v) with non-empty v followed
\* by remove(k) restores the root to its value before the insert, and get of
\* every other key is unchanged.
C6_InsertRemoveIdentity ==
    last.undoes =>
        /\ last.st = "ok"
        /\ smt.root = last.origin.root
        /\ \A k \in Keys \ {last.key} : get(smt, k) = get(last.origin, k)

\* The inserted key shared a path prefix with the leaf its walk ended at, so
\* that the insert built a splitter under at least one node with a placeholder
\* sibling, and the removal has undone it.
C6_Witness ==
    /\ last.undoes /\ last.st = "ok"
    /\ smt.root = last.origin.root
    /\ LET path == path_of(last.key)
           w0 == side_nodes_for_root(last.origin.nodes, path, last.origin.root, FALSE)
           w1 == side_nodes_for_root(last.before.nodes, path, last.before.root, FALSE)
       IN  /\ w0.path_nodes[1] # placeholder
           /\ Len(w1.side_nodes) > Len(w0.side_nodes) + 1
           /\ placeholder \in {w1.side_nodes[i] : i \in 1 .. Len(w1.side_nodes)}

-----------------------------------------------------------------------------
(* C9, C10 *)

\* C9: after add_branch of the updatable proofs of the keys of interest, the
\* same update/remove calls on those keys on both engines leave the two roots
\* equal after every call.
C9_SubtreeRootsEqual ==
    phase = "ops" => (last.st = "ok" /\ last.sub_st = "ok" /\ dsmst.root = smt.root)

\* C10: after add_branch with the updatable proof of smt for k and the value
\* smt.get(k) (empty when absent), get_descend(k) and get(k) on dsmst return
\* what get(k) returns on smt.
C10_BranchReads ==
    phase = "branch" =>
        /\ last.sub_st = "ok"
        /\ \A k \in added :
              /\ get_descend(dsmst, k) = get(smt, k)
              /\ get(dsmst, k) = get(smt, k)

\* The branches of a present key and of an absent key were added to a subtree
\* of a tree of at least three keys.
C10_Witness ==
    /\ phase = "branch" /\ last.op = "add_branch" /\ last.sub_st = "ok"
    /\ \E k1, k2 \in added :
          /\ get(smt, k1) # None /\ get_descend(dsmst, k1) = get(smt, k1)
          /\ get(smt, k2) = None /\ get_descend(dsmst, k2) = None
    /\ Cardinality(DOMAIN smt.values) >= 3

-----------------------------------------------------------------------------
(* C11 *)

\* C11: add_branch with a proof that does not verify against the current root
\* of the engine for the given key and value returns BadProof and leaves the
\* node store, the value store and the root as they were.
C11_BadProofWritesNothing ==
    /\ \A proof \in ProofsOf(smt), key \in Keys, val \in Values \cup {DEFAULT_VALUE} :
          ~verify_proof_with_updates(proof, dsmst.root, key, val).ok
              => add_branch(dsmst, proof, key, val) = [e |-> dsmst, st |-> "badproof"]
    /\ (last.op = "add_any_branch" /\ last.sub_st = "badproof") => dsmst = last.before

\* add_branch has just refused a proof of a present key for the value the key
\* holds, because its first side node was replaced, on a subtree that holds a
\* branch already.
C11_Witness ==
    /\ last.op = "add_any_branch" /\ last.sub_st = "badproof"
    /\ last.value # DEFAULT_VALUE /\ get(smt, last.key) = last.value
    /\ Len(prove(smt, last.key).side_nodes) >= 1
    /\ ~verify_proof_with_updates(BadSideNode(prove(smt, last.key)), dsmst.root,
                                  last.key, last.value).ok
    /\ dsmst = last.before
    /\ DOMAIN dsmst.nodes # {}

-----------------------------------------------------------------------------
(* C12 *)

\* C12: for every proof P generated by prove or prove_updatable, compact(P)
\* succeeds, decompact(compact(P)) has the side nodes, the
\* non_membership_leaf_data and the sibling_data of P, and
\* compact(P).verify(root, k, v) is P.verify(root, k, v) for every root, k, v.
C12_CompactRoundTrip ==
    last.op = "compact" =>
        /\ last.res.st = "ok"
        /\ \A oc \in BOOLEAN :
              /\ decompact(last.res.proof, oc) = [st |-> "ok", proof |-> last.arg]
              /\ \A root \in RootsOf(smt), k \in Keys, v \in Values \cup {DEFAULT_VALUE} :
                    compact_verify(last.res.proof, root, k, v, oc)
                        = VerifyOutcome(last.arg, root, k, v)

\* An updatable proof with a placeholder side node between two others was
\* compacted: the bit mask has a set bit and fewer side nodes are stored.
C12_Witness ==
    /\ last.op = "compact" /\ last.res.st = "ok"
    /\ last.arg.sibling_data # None
    /\ Len(last.arg.side_nodes) = PATH_BITS
    /\ last.arg.side_nodes[2] = placeholder
    /\ count_set_bits(last.res.proof.bitmask) >= 1
    /\ Len(last.res.proof.side_nodes) = 2
    /\ decompact(last.res.proof, TRUE).proof.side_nodes = last.arg.side_nodes

-----------------------------------------------------------------------------
(* C13 *)

\* The tree holds two leaves whose paths differ only in the least significant
\* bit, key being one of them.
DeepestPair(e, key) ==
    \E other \in Keys :
        /\ other # key
        /\ contains(e, key)
        /\ contains(e, other)
        /\ count_common_prefix(path_of(key), path_of(other)) = PATH_BITS - 1

\* C13: for every tree reached by update and remove and every key k,
\* prove(k) has at most PATH_BITS side nodes, and exactly PATH_BITS when k is
\* one of two leaves of the tree whose paths differ only in the last bit.
C13_ProofBound ==
    /\ \A k \in Keys, u \in BOOLEAN :
          /\ Len(do_prove_for_root(smt, k, smt.root, u).side_nodes) <= PATH_BITS
          /\ DeepestPair(smt, k)
                => Len(do_prove_for_root(smt, k, smt.root, u).side_nodes) = PATH_BITS
    /\ last.op = "prove" =>
          /\ Len(last.res.side_nodes) <= PATH_BITS
          /\ DeepestPair(smt, last.key) => Len(last.res.side_nodes) = PATH_BITS

\* prove returned a proof of PATH_BITS side nodes for one of two leaves that
\* differ in the last bit only, in a tree that holds a third leaf.
C13_Witness ==
    /\ last.op = "prove"
    /\ DeepestPair(smt, last.key)
    /\ Len(last.res.side_nodes) = PATH_BITS
    /\ Cardinality(DOMAIN smt.values) = 3

-----------------------------------------------------------------------------
(* C14 *)

\* The proof has more than PATH_BITS side nodes, or a side node whose length
\* is not S, or leaf data whose length is not 1 + 2 * S, or sibling data whose
\* hash is not the first side node.
HasDefect(proof) ==
    \/ Len(proof.side_nodes) > PATH_BITS
    \/ \E i \in 1 .. Len(proof.side_nodes) : ByteLen(proof.side_nodes[i]) # <<0, 1>>
    \/ /\ proof.non_membership_leaf_data # None
       /\ ByteLen(proof.non_membership_leaf_data) # <<1, 2>>
    \/ /\ proof.sibling_data # None
       /\ Len(proof.side_nodes) >= 1
       /\ digest(proof.sibling_data) # proof.side_nodes[1]

\* C14: on a proof with one of these defects verify returns false for every
\* root, key and value, and compact returns BadProof.
C14_DefectRejected ==
    /\ (last.op = "verify" /\ HasDefect(last.arg)) => last.res = "false"
    /\ (last.op = "compact" /\ HasDefect(last.arg)) =>
          last.res = [st |-> "badproof", proof |-> NoCompactProof]

\* compact returned BadProof on a proof of two side nodes whose only defect
\* is sibling data that does not hash to the first side node.
C14_Witness ==
    /\ last.op = "compact"
    /\ last.res.st = "badproof"
    /\ Len(last.arg.side_nodes) >= 2
    /\ last.arg.sibling_data = <<3, 1>>
    /\ sanity_check([last.arg EXCEPT !.sibling_data = None])
    /\ VerifyOutcome(last.arg, smt.root, <<0>>, <<1>>) = "false"
    /\ VerifyOutcome([last.arg EXCEPT !.sibling_data = None], smt.root, <<0>>, <<1>>) = "true"

-----------------------------------------------------------------------------
(* C17 *)

\* C17: verify returns true or false on every proof, whatever the number and
\* the lengths of its side nodes and its leaf data and sibling data, for every
\* root, key and value: no slice and no index is out of range.
C17_VerifyNeverPanics ==
    last.op = "verify" => last.res \in {"true", "false"}

\* verify returned false on a non-membership proof whose leaf data is too
\* short for parse_leaf.
C17_Witness ==
    /\ last.op = "verify"
    /\ last.value = DEFAULT_VALUE
    /\ last.arg.non_membership_leaf_data = <<3, 1>>
    /\ Len(last.arg.side_nodes) >= 1
    /\ last.res = "false"

-----------------------------------------------------------------------------
(* C15 *)

\* The compact proof violates num_side_nodes <= PATH_BITS, or the length of
\* its bit mask, or the number of its stored side nodes.
ViolatesCompactRules(proof) ==
    \/ proof.num_side_nodes > PATH_BITS
    \/ Len(proof.bitmask) # CeilBytes(proof.num_side_nodes)
    \/ Len(proof.side_nodes) # proof.num_side_nodes - count_set_bits(proof.bitmask)

\* C15: on a compact proof that violates one of the three rules (stored side
\* nodes with num_side_nodes = 0 included) decompact returns BadProof and
\* verify returns false.
C15_CompactDefectRejected ==
    /\ (last.op = "decompact" /\ ViolatesCompactRules(last.arg))
          => last.res = [st |-> "badproof", proof |-> NoProof]
    /\ (last.op = "compact_verify" /\ ViolatesCompactRules(last.arg))
          => last.res = "false"

-----------------------------------------------------------------------------
(* C16 *)

\* C16: on every compact proof decompact returns Ok or BadProof and verify
\* returns true or false: no index past the end of the side nodes or of the
\* bit mask and no subtraction below zero is reached.
C16_CompactNeverPanics ==
    /\ last.op = "decompact" => last.res.st \in {"ok", "badproof"}
    /\ last.op = "compact_verify" => last.res \in {"true", "false"}

-----------------------------------------------------------------------------
(* C18 *)

\* C18: in every state reached by update, remove and add_branch, on a fresh
\* engine and on one imported with empty stores, the node store has no entry
\* whose key is the placeholder.
C18_PlaceholderElision ==
    /\ placeholder \notin DOMAIN smt.nodes
    /\ placeholder \notin DOMAIN dsmst.nodes

\* A key was removed from both engines and the imported engine stores a node
\* one of whose children is the placeholder.
C18_Witness ==
    /\ phase = "ops"
    /\ last.op = "update_both" /\ last.value = DEFAULT_VALUE
    /\ last.st = "ok" /\ last.sub_st = "ok"
    /\ \E h \in DOMAIN dsmst.nodes :
          /\ dsmst.nodes[h][1] = NODE_PREFIX
          /\ placeholder \in {dsmst.nodes[h][2], dsmst.nodes[h][3]}
    /\ \E h \in DOMAIN smt.nodes :
          /\ smt.nodes[h][1] = NODE_PREFIX
          /\ placeholder \in {smt.nodes[h][2], smt.nodes[h][3]}
    /\ placeholder \notin DOMAIN dsmst.nodes

-----------------------------------------------------------------------------
(* C19 *)

\* No key is bound to a value.
NoKeyBound == \A k \in Keys : kv[k] = DEFAULT_VALUE

\* C19: a fresh engine has the placeholder as its root, and after any
\* sequence of update and remove the root is the placeholder if and only if
\* no key is bound to a value; removing the last key returns the root to the
\* placeholder.
C19_EmptyRoot ==
    /\ NewEngine.root = placeholder
    /\ (smt.root = placeholder) <=> NoKeyBound
    /\ (smt.root = placeholder) <=> (DOMAIN smt.values = {})
    /\ (last.op \in {"update", "remove"} /\ last.st = "ok" /\ NoKeyBound)
          => smt.root = placeholder

\* remove of the only key of a tree returned the root to the placeholder and
\* left the node store empty.
C19_Witness ==
    /\ last.op = "remove" /\ last.st = "ok"
    /\ last.before.root # placeholder
    /\ Cardinality(DOMAIN last.before.values) = 1
    /\ is_leaf(last.before.nodes[last.before.root])
    /\ NoKeyBound
    /\ smt.root = placeholder
    /\ smt.nodes = EmptyStore

-----------------------------------------------------------------------------
(* C20 *)

\* C20: update_for_root and remove_for_root do not change self.root, for any
\* arguments and whether they succeed or fail; update and remove assign it
\* the root that update_for_root returned.
C20_ForRootKeepsRoot ==
    /\ last.op \in {"update_for_root", "remove_for_root"} => smt.root = last.before.root
    /\ (last.op \in {"update", "remove"} /\ last.st = "ok") =>
          smt.root = update_for_root(last.before, last.key, last.value,
                                     last.before.root).ret
    /\ (last.op \in {"update", "remove"} /\ last.st # "ok") => smt.root = last.before.root

\* update_for_root on the root before the last call succeeded, returned a
\* root other than self.root and wrote the node store; self.root is as it was.
C20_Witness ==
    /\ last.op = "update_for_root" /\ last.st = "ok"
    /\ last.root # last.before.root
    /\ last.root \notin {placeholder, <<3, 1>>}
    /\ last.res # smt.root
    /\ smt.nodes # last.before.nodes
    /\ smt.root = last.before.root

-----------------------------------------------------------------------------
(* C21 *)

\* C21: on every tree reached from a fresh engine by update and remove,
\* get_descend(k) returns what get(k) returns and has_descend(k) what
\* contains(k) returns, for every key k.
C21_DescendAgrees ==
    \A k \in Keys :
        /\ get_descend(smt, k) = get(smt, k)
        /\ has_descend(smt, k) = contains(smt, k)

\* The tree holds three leaves, two of them at the depth PATH_BITS, all found
\* by descending, and an absent key that descending does not find.
C21_Witness ==
    /\ Cardinality(DOMAIN smt.values) = 3
    /\ \E k \in Keys :
          /\ DeepestPair(smt, k)
          /\ Len(prove(smt, k).side_nodes) = PATH_BITS
          /\ get_descend(smt, k) = kv[k]
          /\ has_descend(smt, k)
    /\ \E k \in Keys :
          /\ ~contains(smt, k)
          /\ get_descend(smt, k) = None
          /\ ~has_descend(smt, k)

-----------------------------------------------------------------------------
(* C22 *)

RECURSIVE MissingFrom(_, _, _, _)
\* Descending from the hash h at depth i along path meets a hash that is not
\* the placeholder and has no entry in the node store.
MissingFrom(e, path, i, h) ==
    IF h = placeholder THEN FALSE
    ELSE IF h \notin DOMAIN e.nodes THEN TRUE
    ELSE IF is_leaf(e.nodes[h]) \/ i >= depth THEN FALSE
    ELSE MissingFrom(e, path, i + 1,
                     parse_node(e.nodes[h])[IF get_bit_at_from_msb(path, i) = RIGHT
                                            THEN 2 ELSE 1])

\* The key cannot be reached by descending in the engine e.
Unreachable(e, key) == MissingFrom(e, path_of(key), 0, e.root)

\* C22: get_descend(key) and has_descend(key) return an error when a hash on
\* the path of the key, other than the placeholder, has no entry in the node
\* store, as in an imported engine to which that branch was not added.
C22_DescendErrors ==
    phase = "branch" =>
        \A k \in Keys :
            Unreachable(dsmst, k) =>
                /\ GetDescendResult(dsmst, k).st = "err"
                /\ HasDescendResult(dsmst, k).st = "err"

-----------------------------------------------------------------------------
(* C23 *)

\* C23: when a call on the node store or the value store made during get,
\* contains, get_descend, prove, update, remove or add_branch returns an error,
\* the operation returns an error, and after an update or a remove that failed
\* self.root is the root from before the call.
C23_StoreErrorsReturned ==
    phase = "fault" =>
        /\ last.left < last.needed => last.st = "err"
        /\ last.op \in {"update", "remove"} /\ last.st = "err"
               => smt.root = last.before.root

\* An update fails after some of its writes: the node store has changed, the
\* call returned the error and the root is the old one.
C23_Witness ==
    /\ phase = "fault"
    /\ last.op = "update" /\ last.st = "err"
    /\ last.left < last.needed /\ Len(last.log) >= 2
    /\ smt.nodes # last.before.nodes
    /\ smt.root = last.before.root /\ smt.root # placeholder

-----------------------------------------------------------------------------
(* C24 *)

\* C24: with stores of which only the remove of a missing key fails, every
\* update and every remove of a sequence applied to a fresh engine returns Ok:
\* the call that was made has succeeded and so does any call made next.
C24_NeverRemovesAbsent ==
    /\ last.st = "ok"
    /\ \A k \in Keys :
          /\ remove(smt, k).st = "ok"
          /\ \A v \in Values : update(smt, k, v).st = "ok"

\* A key at the greatest depth has been removed, its leaf, its value and the
\* nodes above it with it, while another key holds the second value and a key
\* that was never inserted or was removed is absent below the root.
C24_Witness ==
    /\ last.op = "remove" /\ last.st = "ok"
    /\ contains(last.before, last.key)
    /\ Len(prove(last.before, last.key).side_nodes) = PATH_BITS
    /\ \E k \in Keys : kv[k] = <<2>>
    /\ \E k \in Keys : ~contains(smt, k) /\ Len(prove(smt, k).side_nodes) > 0

-----------------------------------------------------------------------------
(* C25 *)

RECURSIVE FoldByKeyPath(_, _, _, _)
\* The fold that C25 describes, from the (0-based) index idx on: bit
\* (num-1-idx) of the path of the key chooses the order of the two children.
FoldByKeyPath(path, side_nodes, idx, current_hash) ==
    IF idx >= Len(side_nodes) THEN current_hash
    ELSE IF get_bit_at_from_msb(path, Len(side_nodes) - 1 - idx) = RIGHT
    THEN FoldByKeyPath(path, side_nodes, idx + 1,
                       digest_node(side_nodes[idx + 1], current_hash)[1])
    ELSE FoldByKeyPath(path, side_nodes, idx + 1,
                       digest_node(current_hash, side_nodes[idx + 1])[1])

\* The hash that the fold of verify starts from: the leaf of (key, value), or
\* for the empty value the leaf of the proof or the placeholder.
FoldStart(proof, key, value) ==
    IF value # DEFAULT_VALUE THEN digest_leaf_hash(path_of(key), digest(value))
    ELSE IF proof.non_membership_leaf_data # None
    THEN digest_leaf_hash(parse_leaf(proof.non_membership_leaf_data)[1],
                          parse_leaf(proof.non_membership_leaf_data)[2])
    ELSE placeholder

\* C25: for the proof of every key and the value that the tree binds to it,
\* verify(root, key, value) returns whether the fold of the side nodes, in
\* which bit (num-1-idx) of path = H(key) chooses the order of the children at
\* step idx, ends at the root.
C25_VerifyFoldsByKeyPath ==
    \A k \in Keys :
        verify(prove(smt, k), smt.root, k, ValueOrEmpty(get(smt, k)))
            <=> FoldByKeyPath(path_of(k), prove(smt, k).side_nodes, 0,
                              FoldStart(prove(smt, k), k, ValueOrEmpty(get(smt, k))))
                    = smt.root

-----------------------------------------------------------------------------
(* C26 *)

\* C26: for the proof of every key, the root and every value,
\* verify_proof_with_updates returns the verdict true exactly when verify
\* returns true, and add_branch on an engine of that root returns BadProof
\* exactly when verify returns false.
C26_VerdictsAgree ==
    \A k \in Keys, v \in Values \cup {DEFAULT_VALUE} :
        /\ verify_proof_with_updates(prove(smt, k), smt.root, k, v).ok
               <=> verify(prove(smt, k), smt.root, k, v)
        /\ add_branch(import(EmptyStore, EmptyStore, smt.root), prove(smt, k), k,
                      v).st = "badproof"
               <=> ~verify(prove(smt, k), smt.root, k, v)

-----------------------------------------------------------------------------
(* C27 *)

\* The tree of e at root has a leaf at the path of key whose value hash is
\* the hash of value: the walk of update_for_root ends at that leaf.
HasLeafWith(e, root, key, value) ==
    LET w == side_nodes_for_root(e.nodes, path_of(key), root, FALSE)
    IN  /\ w.path_nodes[1] # placeholder
        /\ w.current_data # None
        /\ is_leaf(w.current_data)
        /\ parse_leaf(w.current_data)[1] = path_of(key)
        /\ parse_leaf(w.current_data)[2] = digest(value)

\* C27: update_for_root(key, value, root), when the tree at root has a leaf at
\* the path of key whose value hash is the hash of value, returns root,
\* whether or not root is self.root, and changes neither store.
C27_ShortCircuitReturnsGivenRoot ==
    (/\ last.op = "update_for_root"
     /\ last.value # DEFAULT_VALUE
     /\ HasLeafWith(last.before, last.root, last.key, last.value))
        => /\ last.st = "ok"
           /\ last.res = last.root
           /\ smt.nodes = last.before.nodes
           /\ smt.values = last.before.values

-----------------------------------------------------------------------------
(* C28 *)

\* C28: after any sequence of update and remove calls on a fresh engine the
\* keys of the node store are exactly the hashes of the nodes reachable from
\* the root, and once no key is bound both stores are empty.
C28_NoOrphans ==
    /\ DOMAIN smt.nodes = Tree(smt)
    /\ NoKeyBound => smt.nodes = EmptyStore /\ smt.values = EmptyStore

\* A remove has orphaned a leaf and at least two nodes above it and removed
\* them all, and the tree that remains is not empty.
C28_Witness ==
    /\ last.op = "remove" /\ last.st = "ok"
    /\ Cardinality(DOMAIN last.before.nodes) >= Cardinality(DOMAIN smt.nodes) + 3
    /\ smt.root # placeholder
    /\ DOMAIN smt.nodes = Tree(smt)

-----------------------------------------------------------------------------
(* C29 *)

\* The entry stored under h is an internal node.
IsInternal(nodes, h) == h \in DOMAIN nodes /\ ~is_leaf(StoreGet(nodes, h))

\* C29: after any sequence of update and remove calls on a fresh engine, no
\* internal node of the node store has the placeholder as both children, and
\* an internal node with the placeholder as one child has an internal node as
\* the other: no leaf of the tree has the placeholder as its sibling.
C29_NoPlaceholderSiblings ==
    \A h \in DOMAIN smt.nodes :
        LET node == smt.nodes[h]
        IN  ~is_leaf(node) =>
              /\ ~(node[2] = placeholder /\ node[3] = placeholder)
              /\ node[2] = placeholder => IsInternal(smt.nodes, node[3])
              /\ node[3] = placeholder => IsInternal(smt.nodes, node[2])

\* A remove of a leaf at the greatest depth has moved its sibling leaf up, and
\* the tree that remains holds a node with the placeholder on one side and an
\* internal node on the other.
C29_Witness ==
    /\ last.op = "remove" /\ last.st = "ok"
    /\ Len(prove(last.before, last.key).side_nodes) = PATH_BITS
    /\ Cardinality(Leaves(smt)) >= 2
    /\ \E h \in Tree(smt) :
          /\ IsInternal(smt.nodes, h)
          /\ placeholder \in {smt.nodes[h][2], smt.nodes[h][3]}
          /\ \E c \in {smt.nodes[h][2], smt.nodes[h][3]} : IsInternal(smt.nodes, c)

-----------------------------------------------------------------------------
(* C30 *)

NodeWrites == {"nodes.set", "nodes.remove"}

\* The new leaf is the first write of the update of last.
LeafFirst ==
    Len(last.log) > 0 =>
        last.log[1] = <<"nodes.set",
                        digest_leaf(path_of(last.key), digest(last.value))[1]>>

\* Every internal node that the update of last wrote was written after each
\* child of it that the update wrote.
ChildrenFirst ==
    \A i \in 1 .. Len(last.log) :
        (last.log[i][1] = "nodes.set" /\ last.log[i][2][2][1] = NODE_PREFIX) =>
            \A c \in {last.log[i][2][2][2], last.log[i][2][2][3]} :
                (\E j \in 1 .. Len(last.log) : last.log[j] = <<"nodes.set", c>>)
                    => \E j \in 1 .. (i - 1) : last.log[j] = <<"nodes.set", c>>

\* self.root was assigned only if every store call of the update returned Ok.
RootAssignedLast ==
    smt.root # last.before.root => last.st = "ok" /\ last.left = last.needed

\* C30 as stated: in an update the new leaf is written first, every new
\* internal node after the new child it references, every write of the value
\* store after all writes of the node store, and self.root is assigned only
\* after all store writes have succeeded.
C30_ValueWritesLast ==
    (phase = "fault" /\ last.op = "update") =>
        /\ LeafFirst
        /\ ChildrenFirst
        /\ \A i, j \in 1 .. Len(last.log) :
              (last.log[i][1] \in {"values.set", "values.remove"}
               /\ last.log[j][1] \in NodeWrites) => j < i
        /\ RootAssignedLast

\* C30 amended: the same, but only the values.set of the new value comes after
\* all writes of the node store; the values.remove of a replaced value comes
\* right after the nodes.remove of the old leaf.
C30_ValueSetLast ==
    (phase = "fault" /\ last.op = "update") =>
        /\ LeafFirst
        /\ ChildrenFirst
        /\ \A i, j \in 1 .. Len(last.log) :
              (last.log[i][1] = "values.set" /\ last.log[j][1] \in NodeWrites) => j < i
        /\ \A i \in 1 .. Len(last.log) :
              last.log[i][1] = "values.remove" =>
                  /\ i = 3
                  /\ last.log[i][2] = path_of(last.key)
                  /\ last.log[i - 1][1] = "nodes.remove"
        /\ RootAssignedLast

\* An update has replaced the value of a key at the greatest depth: it removed
\* the old value, then removed the nodes above the old leaf and wrote the new
\* ones, then set the new value, and the root was assigned.
C30_Witness ==
    /\ phase = "fault" /\ last.op = "update" /\ last.st = "ok"
    /\ last.left = last.needed
    /\ Len(last.log) >= 3 + 2 * PATH_BITS + 1
    /\ last.log[3] = <<"values.remove", path_of(last.key)>>
    /\ last.log[Len(last.log)] = <<"values.set", path_of(last.key)>>
    /\ smt.root # last.before.root

-----------------------------------------------------------------------------
(* C31 *)

\* The shape of w, what the walk of nodes from root along path returned.
WalkShape(nodes, path, root, w) ==
    /\ Len(w.path_nodes) = Len(w.side_nodes) + 1
    /\ Len(w.path_nodes) >= 1 /\ Len(w.path_nodes) <= PATH_BITS + 1
    /\ w.path_nodes[Len(w.path_nodes)] = root
    /\ \/ w.path_nodes[1] = placeholder
       \/ is_leaf(StoreGet(nodes, w.path_nodes[1]))
    /\ \A j \in 1 .. Len(w.side_nodes) :
          LET parent == StoreGet(nodes, w.path_nodes[j + 1])
              bit == get_bit_at_from_msb(path, Len(w.side_nodes) - j)
          IN  /\ parent # None /\ ~is_leaf(parent)
              /\ parse_node(parent) = IF bit = RIGHT
                                       THEN <<w.side_nodes[j], w.path_nodes[j]>>
                                       ELSE <<w.path_nodes[j], w.side_nodes[j]>>
    /\ w.current_data = IF w.path_nodes[1] = placeholder THEN None
                        ELSE StoreGet(nodes, w.path_nodes[1])

\* C31: on every tree reached by update and remove, the walk for every key has
\* |path_nodes| = |side_nodes| + 1 <= PATH_BITS + 1, the root as the last path
\* node, the placeholder or the hash of a leaf as path_nodes[0], side_nodes[j]
\* the sibling of path_nodes[j], and current_data the bytes of path_nodes[0]
\* when that is a leaf and None when it is the placeholder.
C31_WalkShape ==
    \A k \in Keys, sib \in BOOLEAN :
        WalkShape(smt.nodes, path_of(k), smt.root,
                  side_nodes_for_root(smt.nodes, path_of(k), smt.root, sib))

\* The walks of a tree of three leaves: one ends at a leaf at the greatest
\* depth, one at a leaf of another path, one at a placeholder below the root.
C31_Witness ==
    /\ Cardinality(Leaves(smt)) = 3
    /\ \E k \in Keys :
          /\ contains(smt, k)
          /\ Len(side_nodes_for_root(smt.nodes, path_of(k), smt.root, FALSE).side_nodes)
                 = PATH_BITS
    /\ \E k \in Keys :
          LET w == side_nodes_for_root(smt.nodes, path_of(k), smt.root, FALSE)
          IN  ~contains(smt, k) /\ Len(w.side_nodes) > 0
              /\ (w.path_nodes[1] = placeholder \/ parse_leaf(w.current_data)[1] # path_of(k))

-----------------------------------------------------------------------------
(* C32 *)

\* The node that the walk of e for key ends at: the placeholder or a leaf.
WalkEnd(e, key) ==
    side_nodes_for_root(e.nodes, path_of(key), e.root, FALSE).path_nodes[1]

\* The walk of e for key ends at a leaf of another path.
EndsAtOtherLeaf(e, key) ==
    /\ WalkEnd(e, key) # placeholder
    /\ is_leaf(StoreGet(e.nodes, WalkEnd(e, key)))
    /\ parse_leaf(StoreGet(e.nodes, WalkEnd(e, key)))[1] # path_of(key)

\* C32: on every tree reached by update and remove and for every key k, the
\* non_membership_leaf_data of the proof of k is the serialized leaf when the
\* walk for k ends at a leaf of another path, and None when k is present or
\* the walk ends at a placeholder; sibling_data is None in the proof of prove,
\* and the proof of prove_updatable differs from it in sibling_data only.
C32_ProofFields ==
    \A k \in Keys :
        /\ EndsAtOtherLeaf(smt, k) =>
              prove(smt, k).non_membership_leaf_data = StoreGet(smt.nodes, WalkEnd(smt, k))
        /\ (contains(smt, k) \/ WalkEnd(smt, k) = placeholder) =>
              prove(smt, k).non_membership_leaf_data = None
        /\ prove(smt, k).sibling_data = None
        /\ prove(smt, k) = [prove_updatable(smt, k) EXCEPT !.sibling_data = None]

\* A tree with a key that is present, a key whose walk ends at a leaf of
\* another path and a key whose walk ends at a placeholder below the root;
\* the updatable proof of a key has sibling data.
C32_Witness ==
    /\ \E k \in Keys : contains(smt, k) /\ prove_updatable(smt, k).sibling_data # None
    /\ \E k \in Keys : EndsAtOtherLeaf(smt, k)
                         /\ prove(smt, k).non_membership_leaf_data # None
    /\ \E k \in Keys : ~contains(smt, k) /\ WalkEnd(smt, k) = placeholder
                         /\ Len(prove(smt, k).side_nodes) > 0

-----------------------------------------------------------------------------
(* C33 *)

\* C33: on every tree reached by update and remove and for every key k, when
\* prove_updatable(k) has a side node its sibling_data is present and hashes
\* to side_nodes[0], the proof passes the sanity check, and verify accepts it
\* against the root for the same values as it accepts prove(k).
C33_UpdatableWellFormed ==
    \A k \in Keys :
        Len(prove_updatable(smt, k).side_nodes) >= 1 =>
            /\ prove_updatable(smt, k).sibling_data # None
            /\ digest(prove_updatable(smt, k).sibling_data)
                   = prove_updatable(smt, k).side_nodes[1]
            /\ sanity_check(prove_updatable(smt, k))
            /\ \A v \in Values \cup {DEFAULT_VALUE} :
                  verify(prove_updatable(smt, k), smt.root, k, v)
                      <=> verify(prove(smt, k), smt.root, k, v)

\* The updatable proofs of a tree: one whose sibling is a leaf, one whose
\* sibling is an internal node, and one that verify accepts.
C33_Witness ==
    /\ \E k \in Keys : /\ Len(prove_updatable(smt, k).side_nodes) >= 1
                         /\ is_leaf(prove_updatable(smt, k).sibling_data)
    /\ \E k \in Keys : /\ Len(prove_updatable(smt, k).side_nodes) >= 1
                         /\ prove_updatable(smt, k).sibling_data # None
                         /\ ~is_leaf(prove_updatable(smt, k).sibling_data)
    /\ \E k \in Keys : /\ Len(prove_updatable(smt, k).side_nodes) >= 1
                         /\ verify(prove_updatable(smt, k), smt.root, k,
                                   ValueOrEmpty(get(smt, k)))

-----------------------------------------------------------------------------
(* C34 *)

\* The (hash, bytes) pairs that add_branch(proof, key, val) on e is to write
\* to the node store: those produced while verifying, and the sibling.
BranchPairs(e, proof, key, val) ==
    {verify_proof_with_updates(proof, e.root, key, val).updates[i] :
        i \in 1 .. Len(verify_proof_with_updates(proof, e.root, key, val).updates)}
    \cup (IF proof.sibling_data # None /\ Len(proof.side_nodes) > 0
          THEN {<<proof.side_nodes[1], proof.sibling_data>>} ELSE {})

\* What add_branch(proof, key, val), which returned r, did to the engine e.
BranchEffects(e, proof, key, val, r) ==
    /\ r.e.values = IF val # DEFAULT_VALUE THEN StoreSet(e.values, path_of(key), val)
                    ELSE e.values
    /\ DOMAIN r.e.nodes
           = DOMAIN e.nodes \cup {u[1] : u \in BranchPairs(e, proof, key, val)}
    /\ \A u \in BranchPairs(e, proof, key, val) : r.e.nodes[u[1]] = u[2]
    /\ \A h \in DOMAIN e.nodes :
          h \notin {u[1] : u \in BranchPairs(e, proof, key, val)}
              => r.e.nodes[h] = e.nodes[h]
    /\ r.e.root = e.root

\* C34: an add_branch(proof, key, value) that succeeds writes path(key) ->
\* value to the value store when value is non-empty and nothing when it is
\* empty, writes to the node store every pair produced while verifying and
\* side_nodes[0] -> sibling_data when there is one, removes no entry of either
\* store and leaves the root as it was.
C34_AddBranchEffects ==
    phase = "branch" =>
        \A k \in Keys :
            add_branch(dsmst, prove_updatable(smt, k), k, ValueOrEmpty(get(smt, k))).st
                = "ok"
            => BranchEffects(dsmst, prove_updatable(smt, k), k,
                             ValueOrEmpty(get(smt, k)),
                             add_branch(dsmst, prove_updatable(smt, k), k,
                                        ValueOrEmpty(get(smt, k))))

\* Two branches have been added, the second with a value and a sibling, to an
\* engine that held the nodes of the first; the branch of a key without a
\* value can be added next.
C34_Witness ==
    /\ phase = "branch" /\ Cardinality(added) = 2
    /\ last.op = "add_branch" /\ last.sub_st = "ok" /\ last.value # DEFAULT_VALUE
    /\ prove_updatable(smt, last.key).sibling_data # None
    /\ Cardinality(DOMAIN dsmst.values) = 2
    /\ BranchEffects(dsmst, prove_updatable(smt, last.key), last.key, last.value,
                     [e |-> dsmst, st |-> "ok"])
    /\ \E k \in Keys \ added :
          /\ ~contains(smt, k)
          /\ add_branch(dsmst, prove_updatable(smt, k), k, DEFAULT_VALUE).st = "ok"
          /\ Len(prove_updatable(smt, k).side_nodes) > 0

-----------------------------------------------------------------------------
(* C35 *)

\* The walk of e for key returns the bytes of the leaf whenever it does not
\* end at the placeholder, and update and remove of key do not exit fatally.
NeverUnwrapsNone(e, key) ==
    /\ WalkEnd(e, key) # placeholder =>
          side_nodes_for_root(e.nodes, path_of(key), e.root, FALSE).current_data # None
    /\ remove(e, key).st # "panic"
    /\ \A v \in Values : update(e, key, v).st # "panic"

\* C35: in every state of a fresh engine reached by update and remove, and of
\* an engine imported with empty stores at the root of a tree and reached by
\* add_branch, the walk for every key, one whose branch was not added
\* included, returns the leaf bytes whenever path_nodes[0] is not the
\* placeholder, and update and remove return a root or a store error.
C35_NeverUnwrapsNone ==
    /\ \A k \in Keys : NeverUnwrapsNone(smt, k)
    /\ phase = "branch" => \A k \in Keys : NeverUnwrapsNone(dsmst, k)

-----------------------------------------------------------------------------
(* C36 *)

-----------------------------------------------------------------------------
(* C37 *)

\* C37: on an engine imported with a node store that lacks a node or whose
\* entries refer to each other in a cycle, update, remove, prove and
\* get_descend take at most PATH_BITS descent steps (get_descend one more
\* call, the get of the value) and return Ok or a store error.
C37_RunsToCompletion ==
    phase = "called" =>
        /\ last.st \in {"ok", "err"}
        /\ last.steps <= (IF last.op = "get_descend" THEN PATH_BITS + 1 ELSE PATH_BITS)

=============================================================================
